---------------------------- MODULE Spec2Model ----------------------------
(***************************************************************************)
(* Streaming response pipeline of clavix-xtower: the thought-chain         *)
(* splitter, the SSE frame reader, the provider delta decoders, the usage  *)
(* merge and the page's stream handler.                                    *)
(*                                                                         *)
(* A JavaScript string is a sequence of one-character strings (one entry   *)
(* per UTF-16 code unit).  "U0130" stands for the code unit U+0130 (capital*)
(* I with dot above) and "U0307" for U+0307 (combining dot above):         *)
(* String.prototype.toLowerCase maps U+0130 to the two code units          *)
(* "i" U+0307, every other character of the alphabet to one code unit.     *)
(***************************************************************************)
EXTENDS Integers, Sequences, FiniteSets, TLC

VARIABLES
    \* ---- thought-chain splitter run (SpecSplitter)
    input,        \* the text the upstream will deliver, fixed for one run
    pos,          \* number of code units of input already pushed
    buffer,       \* createThoughtChainSplitter: let buffer
    inThinking,   \* createThoughtChainSplitter: let inThinking
    content,      \* concatenation of every contentDelta returned so far
    thinking,     \* concatenation of every thinkingDelta returned so far
    recon,        \* emitted text and consumed tag substrings, concatenated in order
    cuts,         \* the substrings consumed as tags, in order
    phase,        \* "idle" | "pushing" | "flushed"
    \* ---- SSE frame reader run (SpecSse)
    sseText,      \* the text of the response body, fixed for one run
    ssePos,       \* number of code units of sseText already read
    sseBuffer,    \* streamSse: let buffer
    sseSeen,      \* the events the handler was invoked with, in order
    sseLocked,    \* the reader holds the lock of response.body
    sseSplit,     \* some read ended inside a frame (text was kept for the next read)
    ssePhase,     \* "idle" | "reading" | "ended" | "cancelled"
    \* ---- a fold of mergeTokenUsage (SpecUsage)
    usage,        \* the merged usage (streamingUsage)
    usagePrev,    \* the merged usage before the last merge
    usagePatch,   \* the patch of the last merge
    applied,      \* the patches merged so far, in order
    \* ---- calls of the provider decoders (SpecDecoders)
    decProvider,  \* the decoder called last: "none" | "openai" | "anthropic"
    decEvent,     \* the SSE record it was called with
    decOut,       \* the value it returned
    decCtx,       \* the Anthropic context (ctx.blockTypes)
    decCtxBefore, \* the Anthropic context before the last call
    declared,     \* block index -> the type its latest content_block_start declared
    \* ---- the page's exchange orchestrator (SpecExchange)
    provider,               \* let provider: "openai" | "anthropic"
    includeUsage,           \* let includeUsage
    streaming,              \* let streaming
    abortController,        \* "null" | "live" | "aborted" (its signal has fired)
    messages,               \* let messages
    assistantDraft,         \* let assistantDraft
    assistantThinkingDraft, \* let assistantThinkingDraft
    streamingUsage,         \* let streamingUsage
    error,                  \* let error
    lastEvent,              \* let lastEvent
    notice,                 \* let notice
    thoughtSplitter,        \* the page's splitter: [buffer, inThinking]
    anthropicCtx,           \* let anthropicCtx
    didRetryWithoutUsage,   \* send: let didRetryWithoutUsage
    retryWithoutUsage,      \* send: let retryWithoutUsage
    pc,                     \* where send() is: "idle", or suspended in "fetching" |
                            \* "errorText" | "streaming" | "cancelling", or running
                            \* streamSse's loop over the records of a chunk, "handling"
    pending,                \* the records of the chunk read last that the loop has yet to handle
    readerState,            \* streamSse's reader: "none" | "locked" | "cancelled" | "released"
    sends,                  \* number of sends accepted so far
    requests,               \* number of proxy requests issued by the current send
    delivered,              \* number of records the upstream has delivered so far
    streamOptions,          \* the latest request carries stream_options: { include_usage: true }
    received,               \* the deltas decoded from the answer to the latest request
    handled,                \* what the handler did with each record of the last read
    unhandled,              \* the records of the last read the handler was not given
    atDone,                 \* the drafts and usage right after a [DONE] record was handled
    \* ---- one request to the edge proxy (SpecProxy)
    proxyRequest,  \* the request given to handleRequest
    proxyResponse, \* the response it returned
    upstreamCalls, \* the calls of fetchFn, in order
    \* ---- the conversation store (SpecStore)
    storage,       \* localStorage: key -> text of the item
    storageBefore, \* localStorage as ensureConversations found it
    ensured,       \* what ensureConversations returned
    generated,     \* number of ids createId() has given
    \* ---- what the page persists (SpecPersist)
    page,          \* the component's variables, one field each
    downloaded,    \* the text of the export downloaded last
    proxyPayload,  \* the body of the request sent to the proxy last
    \* ---- the response stream of one streaming proxy request (SpecRelay)
    relayUpstream, \* what the upstream does, fixed for one run
    relayPc,       \* where the async function is: "idle", or suspended in
                   \* "fetching" | "text" | "reading", or "done"
    relayRead,     \* number of upstream chunks reader.read() has given
    relaySent,     \* the chunks enqueued on the response stream, in order
    relayStream,   \* the response stream: "none" | "readable" | "closed" | "cancelled"
    relayLate,     \* the controller calls made on the stream after it had finished
    relayClosed,   \* start: let closed
    relayTimer,    \* keepAliveTimer is set
    relayAborted,  \* aborter.signal.aborted
    relayTicks,    \* number of keep-alive frames the timer has enqueued
    relayStatus    \* the status of the Response the stream was returned in

splitterVars == <<input, pos, buffer, inThinking, content, thinking, recon, cuts, phase>>

sseVars == <<sseText, ssePos, sseBuffer, sseSeen, sseLocked, sseSplit, ssePhase>>

usageVars == <<usage, usagePrev, usagePatch, applied>>

decoderVars == <<decProvider, decEvent, decOut, decCtx, decCtxBefore, declared>>

pageVars == <<provider, includeUsage, streaming, abortController, messages,
              assistantDraft, assistantThinkingDraft, streamingUsage, error,
              lastEvent, notice, thoughtSplitter, anthropicCtx,
              didRetryWithoutUsage, retryWithoutUsage, pc, pending, readerState,
              sends, requests, delivered,
              streamOptions, received, handled, unhandled, atDone>>

proxyVars == <<proxyRequest, proxyResponse, upstreamCalls>>

storeVars == <<storage, storageBefore, ensured, generated>>

persistVars == <<page, downloaded, proxyPayload>>

relayVars == <<relayUpstream, relayPc, relayRead, relaySent, relayStream, relayLate,
               relayClosed, relayTimer, relayAborted, relayTicks, relayStatus>>

vars == <<splitterVars, sseVars, usageVars, decoderVars, pageVars, proxyVars, storeVars,
          persistVars, relayVars>>

\* What a step of one run leaves alone: the variables of the other runs.
SplitterFrame == UNCHANGED <<sseVars, usageVars, decoderVars, pageVars, proxyVars, storeVars, persistVars, relayVars>>

SseFrame == UNCHANGED <<splitterVars, usageVars, decoderVars, pageVars, proxyVars, storeVars, persistVars, relayVars>>

UsageFrame == UNCHANGED <<splitterVars, sseVars, decoderVars, pageVars, proxyVars, storeVars, persistVars, relayVars>>

DecoderFrame == UNCHANGED <<splitterVars, sseVars, usageVars, pageVars, proxyVars, storeVars, persistVars, relayVars>>

PageFrame == UNCHANGED <<splitterVars, sseVars, usageVars, decoderVars, proxyVars, storeVars, persistVars, relayVars>>

ProxyFrame ==
    UNCHANGED <<splitterVars, sseVars, usageVars, decoderVars, pageVars, storeVars, persistVars,
                relayVars>>

StoreFrame ==
    UNCHANGED <<splitterVars, sseVars, usageVars, decoderVars, pageVars, proxyVars, persistVars,
                relayVars>>

PersistFrame ==
    UNCHANGED <<splitterVars, sseVars, usageVars, decoderVars, pageVars, proxyVars,
                storageBefore, ensured, relayVars>>

RelayFrame ==
    UNCHANGED <<splitterVars, sseVars, usageVars, decoderVars, pageVars, proxyVars, storeVars,
                persistVars>>

-----------------------------------------------------------------------------
(* JavaScript string primitives                                            *)

Min(a, b) == IF a < b THEN a ELSE b

Max(a, b) == IF a > b THEN a ELSE b

\* String.prototype.slice(start, end) on 0-based indices, negative indices
\* counted from the end, both clamped to [0, length].
Slice(s, start, end) ==
    LET n == Len(s)
        a == IF start < 0 THEN Max(n + start, 0) ELSE Min(start, n)
        b == IF end < 0 THEN Max(n + end, 0) ELSE Min(end, n)
    IN  IF a >= b THEN <<>> ELSE SubSeq(s, a + 1, b)

\* String.prototype.slice(start)
SliceFrom(s, start) == Slice(s, start, Len(s))

\* toLowerCase of one code unit: a string of one or two code units.
LowerChar(c) ==
    CASE c = "T" -> <<"t">>
      [] c = "K" -> <<"k">>
      [] c = "U0130" -> <<"i", "U0307">>
      [] c = "LOCALHOST" -> <<"localhost">>
      [] OTHER -> <<c>>

RECURSIVE ToLowerCase(_)
ToLowerCase(s) ==
    IF s = <<>> THEN <<>> ELSE LowerChar(Head(s)) \o ToLowerCase(Tail(s))

\* String.prototype.startsWith
StartsWith(s, prefix) ==
    /\ Len(prefix) <= Len(s)
    /\ SubSeq(s, 1, Len(prefix)) = prefix

\* String.prototype.indexOf: the least 0-based index at which needle occurs, -1 if none.
IndexOf(s, needle) ==
    LET hits == {i \in 0..(Len(s) - Len(needle)) : SubSeq(s, i + 1, i + Len(needle)) = needle}
    IN  IF hits = {} THEN -1 ELSE CHOOSE i \in hits : \A j \in hits : i <= j

\* String.prototype.lastIndexOf
LastIndexOf(s, needle) ==
    LET hits == {i \in 0..(Len(s) - Len(needle)) : SubSeq(s, i + 1, i + Len(needle)) = needle}
    IN  IF hits = {} THEN -1 ELSE CHOOSE i \in hits : \A j \in hits : i >= j

-----------------------------------------------------------------------------
(* Thought-chain splitter: src/lib/thought-chain.js                        *)

DEFAULT_OPEN_TAGS ==
    << <<"<", "t", "h", "i", "n", "k", ">">>,
       <<"<", "a", "n", "a", "l", "y", "s", "i", "s", ">">> >>

DEFAULT_CLOSE_TAGS ==
    << <<"<", "/", "t", "h", "i", "n", "k", ">">>,
       <<"<", "/", "a", "n", "a", "l", "y", "s", "i", "s", ">">> >>

\* const openTags / closeTags / allTags of createThoughtChainSplitter()
openTags == [i \in 1..Len(DEFAULT_OPEN_TAGS) |-> ToLowerCase(DEFAULT_OPEN_TAGS[i])]

closeTags == [i \in 1..Len(DEFAULT_CLOSE_TAGS) |-> ToLowerCase(DEFAULT_CLOSE_TAGS[i])]

allTags == openTags \o closeTags

RECURSIVE MaxOf(_)
MaxOf(lens) == IF lens = <<>> THEN 1 ELSE Max(Head(lens), MaxOf(Tail(lens)))

maxTagLen == MaxOf([i \in 1..Len(allTags) |-> Len(allTags[i])])

NoHit == [index |-> -1, tag |-> <<>>, kind |-> "none"]

\* One pass of a for-loop of findNextTag over `tags` of kind `kind`.
RECURSIVE ScanTags(_, _, _, _)
ScanTags(lower, tags, kind, best) ==
    IF tags = <<>> THEN best
    ELSE LET tag == Head(tags)
             idx == IndexOf(lower, tag)
             nb  == IF idx = -1 THEN best
                    ELSE IF best.kind = "none" \/ idx < best.index
                         THEN [index |-> idx, tag |-> tag, kind |-> kind]
                         ELSE best
         IN  ScanTags(lower, Tail(tags), kind, nb)

\* findNextTag(text, openTags, closeTags): the hit, or NoHit for null.
findNextTag(text, opens, closes) ==
    LET lower == ToLowerCase(text)
    IN  ScanTags(lower, closes, "close", ScanTags(lower, opens, "open", NoHit))

EmptyOut == [contentDelta |-> <<>>, thinkingDelta |-> <<>>, pieces |-> <<>>]

\* append(out, text) under mode inT; `pieces` records what was emitted, in order.
append(out, inT, text) ==
    IF text = <<>> THEN out
    ELSE IF inT
         THEN [out EXCEPT !.thinkingDelta = @ \o text,
                          !.pieces = Append(@, [kind |-> "thinking", text |-> text])]
         ELSE [out EXCEPT !.contentDelta = @ \o text,
                          !.pieces = Append(@, [kind |-> "content", text |-> text])]

\* A plausible slip: only a lone "<" at the end is kept.
calcKeepTailLenAngleOnly(buf) ==
    IF buf # <<>> /\ buf[Len(buf)] = "<" THEN 1 ELSE 0

\* calcKeepTailLen(): the for-loop from len = max downwards.
RECURSIVE KeepFrom(_, _)
KeepFrom(lower, len) ==
    IF len <= 0 THEN 0
    ELSE IF \E i \in 1..Len(allTags) : StartsWith(allTags[i], Slice(lower, -len, Len(lower)))
         THEN len
         ELSE KeepFrom(lower, len - 1)

\* A plausible slip: the tail is kept from the last "<" on, however long.
calcKeepTailLenFromAngle(buf) ==
    LET idx == LastIndexOf(buf, <<"<">>)
    IN  IF idx = -1 THEN 0 ELSE Len(buf) - idx

calcKeepTailLen(buf) ==
    LET max == Min(maxTagLen - 1, Len(buf))
    IN  IF max <= 0 THEN 0 ELSE KeepFrom(ToLowerCase(buf), max)

\* The while(true) loop of push: resolve every complete tag of the buffer.
RECURSIVE TagLoop(_, _, _)
TagLoop(buf, inT, out) ==
    LET hit == findNextTag(buf, openTags, closeTags)
    IN  IF hit.kind = "none" THEN [buffer |-> buf, inThinking |-> inT, out |-> out]
        ELSE LET before == Slice(buf, 0, hit.index)
                 o1     == append(out, inT, before)
                 cut    == Slice(buf, hit.index, hit.index + Len(hit.tag))
                 o2     == [o1 EXCEPT !.pieces = Append(@, [kind |-> "tag", text |-> cut])]
             IN  TagLoop(SliceFrom(buf, hit.index + Len(hit.tag)), hit.kind = "open", o2)

\* push(chunk) on splitter state st = [buffer, inThinking]:
\* the state after the call and the value returned.
push(st, chunk) ==
    IF chunk = <<>> THEN [buffer |-> st.buffer, inThinking |-> st.inThinking, out |-> EmptyOut]
    ELSE LET r    == TagLoop(st.buffer \o chunk, st.inThinking, EmptyOut)
             keep == calcKeepTailLen(r.buffer)
         IN  IF keep > 0
             THEN [buffer |-> SliceFrom(r.buffer, Len(r.buffer) - keep),
                   inThinking |-> r.inThinking,
                   out |-> append(r.out, r.inThinking, Slice(r.buffer, 0, Len(r.buffer) - keep))]
             ELSE [buffer |-> <<>>,
                   inThinking |-> r.inThinking,
                   out |-> append(r.out, r.inThinking, r.buffer)]

\* A plausible slip: flush() empties the buffer and returns nothing of it.
flushDropsResidue(st) ==
    [buffer |-> <<>>, inThinking |-> st.inThinking, out |-> EmptyOut]

\* flush()
flush(st) ==
    [buffer |-> <<>>, inThinking |-> st.inThinking,
     out |-> append(EmptyOut, st.inThinking, st.buffer)]

\* A plausible slip: reset() leaves the splitter as it is.
resetKeepsState(st) == st

\* A plausible slip: reset() empties the buffer and keeps the mode.
resetKeepsMode(st) == [buffer |-> <<>>, inThinking |-> st.inThinking]

\* reset()
reset(st) == [buffer |-> <<>>, inThinking |-> FALSE]

\* createThoughtChainSplitter(): let buffer = ''; let inThinking = false
NewSplitter == [buffer |-> <<>>, inThinking |-> FALSE]

-----------------------------------------------------------------------------
(* A splitter run: one input text, delivered in chunks cut anywhere, then  *)
(* one flush.                                                              *)

\* Bound: number of fragments an input text is assembled from.
MaxFrags == 3

\* Fragments of model output: an open tag, a close tag in mixed case, the
\* longest tag short of its last character and that character, plain text,
\* and text whose lower-case form is longer than the text.
Fragments ==
    { <<"<", "t", "h", "i", "n", "k", ">">>,
      <<"<", "/", "T", "h", "i", "n", "K", ">">>,
      <<"<", "/", "a", "n", "a", "l", "y", "s", "i", "s">>,
      <<">">>,
      <<"x">>,
      <<"U0130">> }

\* Every concatenation of at most n fragments of the set frags.
RECURSIVE Texts(_, _)
Texts(frags, n) ==
    IF n = 0 THEN {<<>>}
    ELSE LET shorter == Texts(frags, n - 1)
         IN  shorter \cup {t \o f : t \in shorter, f \in frags}

Inputs == Texts(Fragments, MaxFrags)

\* The texts of a list of pieces, concatenated in order.
RECURSIVE Concat(_)
Concat(ps) == IF ps = <<>> THEN <<>> ELSE Head(ps).text \o Concat(Tail(ps))

\* The substrings a list of pieces consumed as tags, in order.
RECURSIVE TagCuts(_)
TagCuts(ps) ==
    IF ps = <<>> THEN <<>>
    ELSE IF Head(ps).kind = "tag" THEN <<Head(ps).text>> \o TagCuts(Tail(ps))
         ELSE TagCuts(Tail(ps))

\* No splitter run is in progress.
SplitterIdle ==
    /\ input = <<>>
    /\ pos = 0
    /\ buffer = <<>>
    /\ inThinking = FALSE
    /\ content = <<>>
    /\ thinking = <<>>
    /\ recon = <<>>
    /\ cuts = <<>>
    /\ phase = "idle"

SplitterInit ==
    /\ input \in Inputs
    /\ pos = 0
    /\ buffer = NewSplitter.buffer
    /\ inThinking = NewSplitter.inThinking
    /\ content = <<>>
    /\ thinking = <<>>
    /\ recon = <<>>
    /\ cuts = <<>>
    /\ phase = "pushing"

\* splitter.push(chunk) with the next n code units of the input.
Push(n) ==
    /\ phase = "pushing"
    /\ pos + n <= Len(input)
    /\ LET r == push([buffer |-> buffer, inThinking |-> inThinking],
                     SubSeq(input, pos + 1, pos + n))
       IN  /\ buffer' = r.buffer
           /\ inThinking' = r.inThinking
           /\ content' = content \o r.out.contentDelta
           /\ thinking' = thinking \o r.out.thinkingDelta
           /\ recon' = recon \o Concat(r.out.pieces)
           /\ cuts' = cuts \o TagCuts(r.out.pieces)
    /\ pos' = pos + n
    /\ UNCHANGED <<input, phase>>
    /\ SplitterFrame

\* splitter.flush() at the end of the stream.
Flush ==
    /\ phase = "pushing"
    /\ pos = Len(input)
    /\ LET r == flush([buffer |-> buffer, inThinking |-> inThinking])
       IN  /\ buffer' = r.buffer
           /\ inThinking' = r.inThinking
           /\ content' = content \o r.out.contentDelta
           /\ thinking' = thinking \o r.out.thinkingDelta
           /\ recon' = recon \o Concat(r.out.pieces)
           /\ cuts' = cuts \o TagCuts(r.out.pieces)
    /\ phase' = "flushed"
    /\ UNCHANGED <<input, pos>>
    /\ SplitterFrame

SplitterNext ==
    \/ \E n \in 1..Len(input) : Push(n)
    \/ Flush


-----------------------------------------------------------------------------
(* Properties of the splitter run                                          *)

\* What one push() of the whole text followed by flush() returns.
OneShot(text) ==
    LET a == push(NewSplitter, text)
        b == flush([buffer |-> a.buffer, inThinking |-> a.inThinking])
    IN  [content  |-> a.out.contentDelta \o b.out.contentDelta,
         thinking |-> a.out.thinkingDelta \o b.out.thinkingDelta]

\* The text's lower-case form has one code unit per code unit of the text.
SameLengthLower(text) == Len(ToLowerCase(text)) = Len(text)

IsTag(text) == \E i \in 1..Len(allTags) : ToLowerCase(text) = allTags[i]

\* C1: for every input text and every way of cutting it into chunks, the
\* pushes followed by flush() return, concatenated, the same content and the
\* same thinking as one push() of the whole text followed by flush().
C1_ChunkBoundaryInvariant ==
    phase = "flushed" =>
        /\ content = OneShot(input).content
        /\ thinking = OneShot(input).thinking

\* C1 restricted to texts whose lower-case form keeps the length.
C1_SameLengthCase ==
    (phase = "flushed" /\ SameLengthLower(input)) =>
        /\ content = OneShot(input).content
        /\ thinking = OneShot(input).thinking

\* C2: after the pushes and the flush, the emitted pieces and the consumed
\* tag substrings, in order, concatenate to the pushed text, and every
\* consumed substring is one of the configured tags (nothing else is dropped).
C2_NothingLost ==
    phase = "flushed" =>
        /\ recon = input
        /\ \A i \in 1..Len(cuts) : IsTag(cuts[i])

\* C2 restricted to texts whose lower-case form keeps the length.
C2_SameLengthCase ==
    (phase = "flushed" /\ SameLengthLower(input)) =>
        /\ recon = input
        /\ \A i \in 1..Len(cuts) : IsTag(cuts[i])

\* The splitter of the run, as the value the operators take.
Splitter == [buffer |-> buffer, inThinking |-> inThinking]

\* C22: whenever push() or flush() has returned, and after a reset() at any
\* such point, the buffer is strictly shorter than the longest configured
\* tag, whatever the lengths of the chunks pushed.
C22_BufferBound ==
    /\ Len(buffer) < maxTagLen
    /\ Len(flush(Splitter).buffer) < maxTagLen
    /\ Len(reset(Splitter).buffer) < maxTagLen

\* A push that emitted text has returned with the buffer at its greatest
\* length, one short of the longest tag.
C22_Witness ==
    /\ phase = "pushing"
    /\ Len(buffer) = maxTagLen - 1
    /\ content # <<>>

\* C23: after flush() has returned the buffer is empty and inThinking is
\* false, and a chunk pushed next returns what a newly created splitter
\* returns for it.
C23_FlushClearsState ==
    phase = "flushed" =>
        /\ buffer = <<>>
        /\ inThinking = FALSE
        /\ \A chunk \in Fragments :
              push(Splitter, chunk).out = push(NewSplitter, chunk).out

\* The configured tags that text begins with, compared without case.
TagsAtHead(text) ==
    {i \in 1..Len(allTags) :
        /\ Len(allTags[i]) <= Len(text)
        /\ ToLowerCase(SubSeq(text, 1, Len(allTags[i]))) = allTags[i]}

\* The text read from left to right: a tag at the head is taken out and
\* sets the mode (thinking after an open tag, content after a close tag),
\* any other character goes to the bucket of the mode in force.
RECURSIVE Classify(_, _)
Classify(text, acc) ==
    IF text = <<>> THEN acc
    ELSE IF TagsAtHead(text) # {}
    THEN LET i == CHOOSE i \in TagsAtHead(text) : TRUE
         IN  Classify(SliceFrom(text, Len(allTags[i])),
                      [acc EXCEPT !.inThinking = (i <= Len(openTags)),
                                  !.cuts = Append(@, SubSeq(text, 1, Len(allTags[i])))])
    ELSE Classify(Tail(text),
                  IF acc.inThinking
                  THEN [acc EXCEPT !.thinking = Append(@, Head(text))]
                  ELSE [acc EXCEPT !.content = Append(@, Head(text))])

Classified(text) ==
    Classify(text, [content |-> <<>>, thinking |-> <<>>, cuts |-> <<>>, inThinking |-> FALSE])

\* The part of the input that push() has dealt with: all that was pushed
\* but the tail it holds back.
Resolved == SubSeq(input, 1, pos - Len(buffer))

\* C27: after every push() and after the flush, the text dealt with so far
\* was split as a reading from left to right splits it: each tag at its
\* earliest position goes to neither bucket, the text before a tag goes to
\* the bucket of the mode in force before it, and the mode after a tag is
\* thinking for an open tag and content for a close tag of either name.
C27_TagHandling ==
    /\ content = Classified(Resolved).content
    /\ thinking = Classified(Resolved).thinking
    /\ cuts = Classified(Resolved).cuts
    /\ inThinking = Classified(Resolved).inThinking

\* C27 restricted to texts whose lower-case form keeps the length.
C27_SameLengthCase == SameLengthLower(input) => C27_TagHandling

\* A text opened with <think> and closed with </analysis> was split:
\* text in both buckets, two tags taken out, the mode back to content.
C27_SameLengthWitness ==
    /\ phase = "flushed"
    /\ SameLengthLower(input)
    /\ Len(cuts) = 2
    /\ ToLowerCase(cuts[2]) = closeTags[2]
    /\ inThinking = FALSE

\* The texts of the pieces behind the last tag piece.
RECURSIVE AfterLastTag(_)
AfterLastTag(ps) ==
    IF ps = <<>> THEN <<>>
    ELSE IF \E i \in 1..Len(ps) : ps[i].kind = "tag" THEN AfterLastTag(Tail(ps))
         ELSE Concat(ps)

\* text ends with a beginning of some configured tag, compared without case.
Ambiguous(text) ==
    /\ text # <<>>
    /\ Len(text) <= maxTagLen - 1
    /\ \E i \in 1..Len(allTags) : StartsWith(allTags[i], ToLowerCase(text))

\* The longest end of text that is Ambiguous, <<>> if none is.
AmbiguousTail(text) ==
    LET lens == {n \in 1..Len(text) : Ambiguous(SubSeq(text, Len(text) - n + 1, Len(text)))}
    IN  IF lens = {} THEN <<>>
        ELSE LET n == CHOOSE n \in lens : \A m \in lens : m <= n
             IN  SubSeq(text, Len(text) - n + 1, Len(text))

\* C28: whatever push() is called with, the call emits or takes out as a
\* tag all of the buffer and the chunk but the tail it keeps; the tail kept
\* is the longest end of the text behind the last tag taken out that begins
\* a configured tag; and a tail kept by the call before that turns out in
\* this call to begin no tag is emitted by this call, first, to the bucket
\* of the mode in force.
C28_OnlyAmbiguousTailWithheld ==
    [][(phase = "pushing" /\ pos' > pos) =>
          \E chunk \in {SubSeq(input, pos + 1, pos')} :
          \E r \in {push(Splitter, chunk)} :
             /\ buffer' = r.buffer
             /\ Concat(r.out.pieces) \o r.buffer = buffer \o chunk
             /\ r.buffer = AmbiguousTail(AfterLastTag(r.out.pieces) \o r.buffer)
             /\ (/\ buffer # <<>>
                 /\ TagsAtHead(buffer \o chunk) = {}
                 /\ ~Ambiguous(buffer \o chunk))
                => /\ r.out.pieces # <<>>
                   /\ r.out.pieces[1].kind = (IF inThinking THEN "thinking" ELSE "content")
                   /\ r.out.pieces[1].text[1] = buffer[1]]_vars

\* A push was given 'x</analysis' or the end of it: 'x' is in the content
\* bucket and the ten characters that begin '</analysis>' are kept back.
C28_Witness ==
    /\ phase = "pushing"
    /\ pos < Len(input)
    /\ content = <<"x">>
    /\ buffer = <<"<", "/", "a", "n", "a", "l", "y", "s", "i", "s">>

-----------------------------------------------------------------------------
(* SSE frame reader: parseSseChunk and streamSse                           *)

NotCR(c) == c # "\r"

\* raw.replaceAll('\r', '')
RemoveCR(s) == SelectSeq(s, NotCR)

\* String.prototype.split(sep) for a non-empty separator.
RECURSIVE Split(_, _)
Split(s, sep) ==
    LET idx == IndexOf(s, sep)
    IN  IF idx = -1 THEN <<s>>
        ELSE <<Slice(s, 0, idx)>> \o Split(SliceFrom(s, idx + Len(sep)), sep)

\* Array.prototype.join(sep)
RECURSIVE Join(_, _)
Join(parts, sep) ==
    IF parts = <<>> THEN <<>>
    ELSE IF Len(parts) = 1 THEN parts[1]
         ELSE parts[1] \o sep \o Join(Tail(parts), sep)

IsSpace(c) == c \in {" ", "\t", "\n", "\r"}

\* String.prototype.trimStart
RECURSIVE TrimStart(_)
TrimStart(s) == IF s # <<>> /\ IsSpace(Head(s)) THEN TrimStart(Tail(s)) ELSE s

\* String.prototype.trimEnd
RECURSIVE TrimEnd(_)
TrimEnd(s) ==
    IF s # <<>> /\ IsSpace(s[Len(s)]) THEN TrimEnd(SubSeq(s, 1, Len(s) - 1)) ELSE s

\* String.prototype.trim
Trim(s) == TrimEnd(TrimStart(s))

\* The value null of a field that is a string or null.
Null == <<"null">>

LF == <<"\n">>

BlankLine == <<"\n", "\n">>

FieldEvent == <<"e", "v", "e", "n", "t">>

FieldId == <<"i", "d">>

FieldData == <<"d", "a", "t", "a">>

\* The inner for-loop of parseSseChunk over the lines of one block;
\* acc = [event, id, dataLines].
RECURSIVE ParseLines(_, _)
ParseLines(lines, acc) ==
    IF lines = <<>> THEN acc
    ELSE LET line  == Head(lines)
             idx   == IndexOf(line, <<":">>)
             field == Trim(IF idx = -1 THEN line ELSE Slice(line, 0, idx))
             value == IF idx = -1 THEN <<>> ELSE TrimStart(SliceFrom(line, idx + 1))
             next  == IF line = <<>> THEN acc
                      ELSE IF StartsWith(line, <<":">>) THEN acc
                      ELSE IF field = FieldEvent
                           THEN [acc EXCEPT !.event = IF value # <<>> THEN value ELSE Null]
                      ELSE IF field = FieldId
                           THEN [acc EXCEPT !.id = IF value # <<>> THEN value ELSE Null]
                      ELSE IF field = FieldData
                           THEN [acc EXCEPT !.dataLines = Append(@, value)]
                      ELSE acc
         IN  ParseLines(Tail(lines), next)

\* A plausible slip: a block without a data line makes an event too.
RECURSIVE ParseBlocksEmitsDataless(_)
ParseBlocksEmitsDataless(blocks) ==
    IF blocks = <<>> THEN <<>>
    ELSE LET acc == ParseLines(Split(Head(blocks), LF),
                               [event |-> Null, id |-> Null, dataLines |-> <<>>])
         IN  <<[event |-> acc.event, id |-> acc.id, data |-> Join(acc.dataLines, LF)]>>
                 \o ParseBlocksEmitsDataless(Tail(blocks))

\* The outer for-loop of parseSseChunk over the blocks.
RECURSIVE ParseBlocks(_)
ParseBlocks(blocks) ==
    IF blocks = <<>> THEN <<>>
    ELSE LET acc == ParseLines(Split(Head(blocks), LF),
                               [event |-> Null, id |-> Null, dataLines |-> <<>>])
             rest == ParseBlocks(Tail(blocks))
         IN  IF Len(acc.dataLines) = 0 THEN rest
             ELSE <<[event |-> acc.event, id |-> acc.id, data |-> Join(acc.dataLines, LF)]>> \o rest

\* parseSseChunk(raw): the events of the blocks of raw.
parseSseChunk(raw) == ParseBlocks(Split(RemoveCR(raw), BlankLine))

\* A plausible slip: the text after the last blank line is not kept.
ReadChunkDropsTail(buf, chunk) ==
    LET b  == RemoveCR(buf \o chunk)
        di == LastIndexOf(b, BlankLine)
    IN  IF di = -1 THEN [buffer |-> b, events |-> <<>>]
        ELSE [buffer |-> <<>>, events |-> parseSseChunk(Slice(b, 0, di))]

\* The body of one iteration of streamSse's read loop after a chunk arrived:
\* the buffer kept for the next read and the events handed to the handler.
ReadChunk(buf, chunk) ==
    LET b  == RemoveCR(buf \o chunk)
        di == LastIndexOf(b, BlankLine)
    IN  IF di = -1 THEN [buffer |-> b, events |-> <<>>]
        ELSE [buffer |-> SliceFrom(b, di + 2), events |-> parseSseChunk(Slice(b, 0, di))]

-----------------------------------------------------------------------------
(* A frame reader run: one response body, read in chunks cut anywhere.     *)

\* Bound: number of fragments a response body is assembled from.
MaxSseFrags == 4

\* Fragments of a response body: a data line, an event line, a line feed
\* and a carriage return.
SseFragments ==
    { <<"d", "a", "t", "a", ":", "x", "\n">>,
      <<"e", "v", "e", "n", "t", ":", "e", "\n">>,
      <<"\n">>,
      <<"\r">> }

SseTexts == Texts(SseFragments, MaxSseFrags)

\* No frame reader run is in progress.
SseIdle ==
    /\ sseText = <<>>
    /\ ssePos = 0
    /\ sseBuffer = <<>>
    /\ sseSeen = <<>>
    /\ sseLocked = FALSE
    /\ sseSplit = FALSE
    /\ ssePhase = "idle"

\* streamSse(response, onEvent) up to its first read: getReader(), buffer = ''.
SseInit ==
    /\ sseText \in SseTexts
    /\ ssePos = 0
    /\ sseBuffer = <<>>
    /\ sseSeen = <<>>
    /\ sseLocked = TRUE
    /\ sseSplit = FALSE
    /\ ssePhase = "reading"

\* reader.read() resolves with the next n code units; the handler answers
\* false at one of the events of this chunk, or at none (stopAt = 0).
SseRead(n) ==
    /\ ssePhase = "reading"
    /\ ssePos + n <= Len(sseText)
    /\ LET r == ReadChunk(sseBuffer, SubSeq(sseText, ssePos + 1, ssePos + n))
       IN  /\ sseBuffer' = r.buffer
           /\ sseSplit' = (sseSplit \/ r.buffer # <<>>)
           /\ \E stopAt \in 0..Len(r.events) :
                 IF stopAt = 0
                 THEN /\ sseSeen' = sseSeen \o r.events
                      /\ UNCHANGED <<sseLocked, ssePhase>>
                 ELSE \* keepGoing === false: reader.cancel(), return, releaseLock()
                      /\ sseSeen' = sseSeen \o SubSeq(r.events, 1, stopAt)
                      /\ sseLocked' = FALSE
                      /\ ssePhase' = "cancelled"
    /\ ssePos' = ssePos + n
    /\ UNCHANGED sseText
    /\ SseFrame

\* A plausible slip: at the end of the stream the text still buffered is
\* parsed and its events are handed to the handler.
SseEndParsesTail ==
    /\ ssePhase = "reading"
    /\ ssePos = Len(sseText)
    /\ sseSeen' = sseSeen \o parseSseChunk(sseBuffer)
    /\ sseBuffer' = <<>>
    /\ sseLocked' = FALSE
    /\ ssePhase' = "ended"
    /\ UNCHANGED <<sseText, ssePos, sseSplit>>
    /\ SseFrame

\* reader.read() resolves with done: break, releaseLock().
SseEnd ==
    /\ ssePhase = "reading"
    /\ ssePos = Len(sseText)
    /\ sseLocked' = FALSE
    /\ ssePhase' = "ended"
    /\ UNCHANGED <<sseText, ssePos, sseBuffer, sseSeen, sseSplit>>
    /\ SseFrame

SseNext ==
    \/ \E n \in 1..Len(sseText) : SseRead(n)
    \/ SseEnd

-----------------------------------------------------------------------------
(* A frame reader run on a body of whole lines that arrives in one chunk.  *)

\* Bound: number of lines a body is assembled from.
MaxLines == 4

\* Lines of a response body: two data lines, an event line, an id line, a
\* comment, a field the reader does not know, and the empty line.
FrameLines ==
    { <<"d", "a", "t", "a", ":", "x", "\n">>,
      <<"d", "a", "t", "a", ":", "y", "\n">>,
      <<"e", "v", "e", "n", "t", ":", "e", "\n">>,
      <<"i", "d", ":", "1", "\n">>,
      <<":", "k", "\n">>,
      <<"r", "e", "t", "r", "y", ":", "5", "\n">>,
      <<"\n">> }

FrameTexts == Texts(FrameLines, MaxLines)

\* streamSse(response, onEvent) up to its first read, on a body of lines.
FramesInit ==
    /\ sseText \in FrameTexts
    /\ ssePos = 0
    /\ sseBuffer = <<>>
    /\ sseSeen = <<>>
    /\ sseLocked = TRUE
    /\ sseSplit = FALSE
    /\ ssePhase = "reading"

\* reader.read() resolves with the whole body.
SseReadWhole ==
    /\ ssePos < Len(sseText)
    /\ SseRead(Len(sseText) - ssePos)

FramesNext ==
    \/ SseReadWhole
    \/ SseEnd

\* C3: when the stream has ended and the handler never answered false, the
\* handler was invoked with the same events, in the same order, as when the
\* whole body arrives in one chunk.
C3_FrameChunkInvariant ==
    ssePhase = "ended" => sseSeen = ReadChunk(<<>>, sseText).events

\* A body of two frames was read to its end, and some read ended inside a frame.
C3_Witness ==
    /\ ssePhase = "ended"
    /\ sseSplit
    /\ Len(sseSeen) >= 2

\* The lines of a body that are ended by a line feed.
WholeLines(text) ==
    LET parts == Split(text, LF)
    IN  SubSeq(parts, 1, Len(parts) - 1)

NoFrame == [event |-> Null, id |-> Null, dataLines |-> <<>>]

\* A frame after one more of its lines: a comment and an unknown field
\* leave it as it is.
FrameWith(frame, line) ==
    LET idx   == IndexOf(line, <<":">>)
        name  == IF idx = -1 THEN line ELSE SubSeq(line, 1, idx)
        value == IF idx = -1 THEN <<>> ELSE SubSeq(line, idx + 2, Len(line))
    IN  CASE name = FieldData  -> [frame EXCEPT !.dataLines = Append(@, value)]
          [] name = FieldEvent -> [frame EXCEPT !.event = IF value = <<>> THEN Null ELSE value]
          [] name = FieldId    -> [frame EXCEPT !.id = IF value = <<>> THEN Null ELSE value]
          [] OTHER             -> frame

\* The records of a body read line by line: an empty line ends a frame; a
\* frame with data lines makes one record, whose data is the data values
\* joined by a line feed; a frame without data lines makes none; the next
\* frame starts with no event and no id.
RECURSIVE Dispatch(_, _)
Dispatch(lines, frame) ==
    IF lines = <<>> THEN <<>>
    ELSE IF Head(lines) = <<>>
    THEN (IF frame.dataLines = <<>> THEN <<>>
          ELSE <<[event |-> frame.event, id |-> frame.id,
                  data |-> Join(frame.dataLines, LF)]>>)
         \o Dispatch(Tail(lines), NoFrame)
    ELSE Dispatch(Tail(lines), FrameWith(frame, Head(lines)))

\* C30: the handler is invoked with one record for each frame that has a
\* data line, in order, and with none for a frame that has none; the
\* record's data is the frame's data values joined by a line feed, and its
\* event and id are those of its own frame, null when the frame has none.
C30_DatalessFramesSuppressed ==
    /\ Len(sseSeen) <= Len(Dispatch(WholeLines(sseText), NoFrame))
    /\ sseSeen = SubSeq(Dispatch(WholeLines(sseText), NoFrame), 1, Len(sseSeen))
    /\ ssePhase = "ended" => sseSeen = Dispatch(WholeLines(sseText), NoFrame)

\* A frame with an event line alone was followed by a frame with a data
\* line: the handler was invoked once, with that data and no event.
C30_Witness ==
    /\ ssePhase = "ended"
    /\ sseText = <<"e", "v", "e", "n", "t", ":", "e", "\n">> \o LF
                    \o <<"d", "a", "t", "a", ":", "x", "\n">> \o LF
    /\ sseSeen = <<[event |-> Null, id |-> Null, data |-> <<"x">>]>>

-----------------------------------------------------------------------------
(* JavaScript values, as JSON.parse returns them                           *)
(*                                                                         *)
(* A value is a record tagged with its typeof class.  A string is a        *)
(* sequence of tokens: one code unit each where the code looks inside the  *)
(* string (the texts given to the splitter), one token for a whole word    *)
(* where the code only compares it (event names, block types).             *)

Undefined == [t |-> "undefined"]

JNull == [t |-> "null"]

JStr(s) == [t |-> "string", s |-> s]

JNum(n) == [t |-> "number", n |-> n]

\* An object with the own properties DOMAIN f.
JObj(f) == [t |-> "object", f |-> f]

JArr(a) == [t |-> "array", a |-> a]

EmptyObj == JObj(<<>>)

\* typeof v === 'string'
IsString(v) == v.t = "string"

\* typeof v === 'number'
IsNumber(v) == v.t = "number"

\* v?.k for a property name k that no primitive and no array has.
Get(v, k) ==
    IF v.t = "object" /\ k \in DOMAIN v.f THEN v.f[k] ELSE Undefined

\* v?.[0]
First(v) ==
    IF v.t = "array" THEN (IF Len(v.a) >= 1 THEN v.a[1] ELSE Undefined)
    ELSE IF v.t = "string" THEN (IF Len(v.s) >= 1 THEN JStr(<<v.s[1]>>) ELSE Undefined)
    ELSE Undefined

\* a ?? b
Coalesce(a, b) == IF a.t \in {"undefined", "null"} THEN b ELSE a

\* Boolean(v) for the values of the model
Truthy(v) ==
    CASE v.t \in {"undefined", "null"} -> FALSE
      [] v.t = "string" -> v.s # <<>>
      [] v.t = "number" -> v.n # 0
      [] OTHER -> TRUE

\* Number.isInteger(v): the numbers of the model are integers.
IsInteger(v) == v.t = "number"

\* String(v): a string as it is, an array as its elements joined by ",",
\* anything else as a text that is no event name.
RECURSIVE JsString(_)
JsString(v) ==
    CASE v.t = "string" -> v.s
      [] v.t = "array" /\ Len(v.a) = 1 -> JsString(v.a[1])
      [] v.t = "array" /\ Len(v.a) = 0 -> <<>>
      [] OTHER -> <<"[", v.t, "]">>

\* The text of an SSE data field: either the serialisation of a JSON value,
\* or a text that is not JSON.
JsonText(v) == [kind |-> "json", text |-> <<>>, value |-> v]

PlainText(s) == [kind |-> "plain", text |-> s, value |-> Undefined]

DONE == PlainText(<<"[DONE]">>)

EmptyText == PlainText(<<>>)

\* JSON.parse(data) throws a SyntaxError.
ParseThrows(data) == data.kind # "json"

\* JSON.parse(data), when it returns.
JsonParse(data) == data.value

-----------------------------------------------------------------------------
(* Provider delta decoders: src/lib/thought-chain.js                       *)

\* A plausible slip: the object returned for nothing reports the end.
NoDeltaDone == [done |-> TRUE, contentDelta |-> <<>>, thinkingDelta |-> <<>>, usage |-> Undefined]

\* { done: false, contentDelta: '', thinkingDelta: '' }
NoDelta == [done |-> FALSE, contentDelta |-> <<>>, thinkingDelta |-> <<>>, usage |-> Undefined]

\* A plausible slip: the legacy field choices[0].text is read before
\* choices[0].delta.content, and delta.thinking before delta.reasoning.
parseOpenAiSseDataLegacyFirst(data) ==
    IF data = DONE THEN [NoDelta EXCEPT !.done = TRUE]
    ELSE IF data = EmptyText THEN NoDelta
    ELSE IF ParseThrows(data) THEN NoDelta
    ELSE LET parsed == JsonParse(data)
             choice == Coalesce(First(Get(parsed, "choices")), EmptyObj)
             delta  == Coalesce(Get(choice, "delta"), EmptyObj)
             contentDelta ==
                 IF IsString(Get(choice, "text")) THEN Get(choice, "text").s
                 ELSE IF IsString(Get(delta, "content")) THEN Get(delta, "content").s
                 ELSE <<>>
             thinkingDelta ==
                 IF IsString(Get(delta, "thinking")) THEN Get(delta, "thinking").s
                 ELSE IF IsString(Get(delta, "reasoning_content")) THEN Get(delta, "reasoning_content").s
                 ELSE IF IsString(Get(delta, "reasoning")) THEN Get(delta, "reasoning").s
                 ELSE <<>>
         IN  [done |-> FALSE, contentDelta |-> contentDelta,
              thinkingDelta |-> thinkingDelta, usage |-> Undefined]

\* parseOpenAiSseData(data); usage is the property `usage` of the returned
\* object, which no return statement sets.
parseOpenAiSseData(data) ==
    IF data = DONE THEN [NoDelta EXCEPT !.done = TRUE]
    ELSE IF data = EmptyText THEN NoDelta
    ELSE IF ParseThrows(data) THEN NoDelta
    ELSE LET parsed == JsonParse(data)
             choice == Coalesce(First(Get(parsed, "choices")), EmptyObj)
             delta  == Coalesce(Get(choice, "delta"), EmptyObj)
             contentDelta ==
                 IF IsString(Get(delta, "content")) THEN Get(delta, "content").s
                 ELSE IF IsString(Get(choice, "text")) THEN Get(choice, "text").s
                 ELSE <<>>
             thinkingDelta ==
                 IF IsString(Get(delta, "reasoning")) THEN Get(delta, "reasoning").s
                 ELSE IF IsString(Get(delta, "reasoning_content")) THEN Get(delta, "reasoning_content").s
                 ELSE IF IsString(Get(delta, "thinking")) THEN Get(delta, "thinking").s
                 ELSE <<>>
         IN  [done |-> FALSE, contentDelta |-> contentDelta,
              thinkingDelta |-> thinkingDelta, usage |-> Undefined]

\* createAnthropicSseContext(): blockTypes = new Map()
createAnthropicSseContext == [blockTypes |-> <<>>]

\* A plausible slip: redacted_thinking blocks are not taken for thinking.
isThinkingBlockWithoutRedacted(blockType) ==
    IsString(blockType) /\ blockType.s \in {<<"thinking">>, <<"thinking_summary">>}

\* const isThinkingBlock = blockType === 'thinking' || ... for a remembered
\* block type (undefined when the index was never declared).
isThinkingBlock(blockType) ==
    IsString(blockType)
    /\ blockType.s \in {<<"thinking">>, <<"redacted_thinking">>, <<"thinking_summary">>}

\* parseAnthropicSseEvent(event, ctx): the value returned and the context
\* after the call.
parseAnthropicSseEvent(event, ctx) ==
    IF event.data = EmptyText THEN [out |-> NoDelta, ctx |-> ctx]
    ELSE IF ParseThrows(event.data) THEN [out |-> NoDelta, ctx |-> ctx]
    ELSE LET parsed == JsonParse(event.data)
             type   == IF event.event # Null THEN event.event
                       ELSE JsString(Coalesce(Get(parsed, "type"), JStr(<<>>)))
             index  == Get(parsed, "index")
         IN  IF type = <<"content_block_start">>
             THEN LET blockType == Get(Get(parsed, "content_block"), "type")
                  IN  [out |-> NoDelta,
                       ctx |-> IF IsInteger(index) /\ IsString(blockType)
                               THEN [ctx EXCEPT !.blockTypes =
                                        [i \in (DOMAIN @) \cup {index.n} |->
                                            IF i = index.n THEN blockType.s ELSE @[i]]]
                               ELSE ctx]
             ELSE IF type # <<"content_block_delta">> THEN [out |-> NoDelta, ctx |-> ctx]
             ELSE LET blockType == IF IsInteger(index) /\ index.n \in DOMAIN ctx.blockTypes
                                   THEN JStr(ctx.blockTypes[index.n])
                                   ELSE Undefined
                      delta     == Coalesce(Get(parsed, "delta"), EmptyObj)
                      deltaType == IF IsString(Get(delta, "type")) THEN Get(delta, "type").s ELSE <<>>
                      textDelta ==
                          IF IsString(Get(delta, "text")) THEN Get(delta, "text").s
                          ELSE IF IsString(Get(Get(delta, "text_delta"), "text"))
                               THEN Get(Get(delta, "text_delta"), "text").s
                          ELSE IF deltaType = <<"text_delta">> /\ IsString(Get(delta, "text"))
                               THEN Get(delta, "text").s
                          ELSE <<>>
                      thinkingDelta ==
                          IF IsString(Get(delta, "thinking")) THEN Get(delta, "thinking").s
                          ELSE IF IsString(Get(Get(delta, "thinking_delta"), "thinking"))
                               THEN Get(Get(delta, "thinking_delta"), "thinking").s
                          ELSE IF deltaType = <<"thinking_delta">> /\ IsString(Get(delta, "thinking"))
                               THEN Get(delta, "thinking").s
                          ELSE <<>>
                  IN  [out |-> IF isThinkingBlock(blockType)
                               THEN [NoDelta EXCEPT !.thinkingDelta =
                                        IF thinkingDelta # <<>> THEN thinkingDelta ELSE textDelta]
                               ELSE [NoDelta EXCEPT !.contentDelta = textDelta,
                                                    !.thinkingDelta = thinkingDelta],
                       ctx |-> ctx]

-----------------------------------------------------------------------------
(* Token usage merge: src/routes/+page.svelte                              *)

\* The object obj with its property k set to v.
With(obj, k, v) ==
    JObj([x \in (DOMAIN obj.f) \cup {k} |-> IF x = k THEN v ELSE obj.f[x]])

\* An object literal: the properties of f whose value is not undefined.
Compact(f) == JObj([k \in {x \in DOMAIN f : f[x] # Undefined} |-> f[k]])

UsageKeys == {"inputTokens", "outputTokens", "totalTokens"}

\* A plausible slip: the patch's value replaces the old one.
MergeFieldOverwrites(next, patch, k) ==
    IF IsNumber(Get(patch, k)) THEN With(next, k, Get(patch, k)) ELSE next

\* One of the three if-statements of mergeTokenUsage, for the field k.
MergeField(next, patch, k) ==
    IF IsNumber(Get(patch, k))
    THEN With(next, k,
              IF IsNumber(Get(next, k))
              THEN JNum(Max(Get(next, k).n, Get(patch, k).n))
              ELSE Get(patch, k))
    ELSE next

\* mergeTokenUsage(current, patch)
mergeTokenUsage(current, patch) ==
    IF ~Truthy(patch) THEN current
    ELSE LET n0 == IF Truthy(current) THEN current ELSE EmptyObj
             n1 == MergeField(n0, patch, "inputTokens")
             n2 == MergeField(n1, patch, "outputTokens")
             n3 == MergeField(n2, patch, "totalTokens")
             n4 == IF ~IsNumber(Get(n3, "totalTokens"))
                      /\ IsNumber(Get(n3, "inputTokens"))
                      /\ IsNumber(Get(n3, "outputTokens"))
                   THEN With(n3, "totalTokens",
                             JNum(Get(n3, "inputTokens").n + Get(n3, "outputTokens").n))
                   ELSE n3
         IN  IF DOMAIN n4.f # {} THEN n4 ELSE JNull

-----------------------------------------------------------------------------
(* A fold of mergeTokenUsage over the usage patches of one exchange.       *)

\* Bound: number of patches merged in one run.
MaxPatches == 3

\* The patches: every TokenUsage with inputTokens absent, 2 or 5, outputTokens
\* absent or 3 and totalTokens absent or 4, and undefined (no usage).
UsagePatches ==
    {Compact([inputTokens |-> i, outputTokens |-> o, totalTokens |-> t]) :
        i \in {Undefined, JNum(2), JNum(5)},
        o \in {Undefined, JNum(3)},
        t \in {Undefined, JNum(4)}}
    \cup {Undefined}

\* No fold is in progress.
UsageIdle ==
    /\ usage = JNull
    /\ usagePrev = JNull
    /\ usagePatch = Undefined
    /\ applied = <<>>

\* let streamingUsage = null
UsageInit == UsageIdle

\* streamingUsage = mergeTokenUsage(streamingUsage, patch)
MergeUsage(patch) ==
    /\ Len(applied) < MaxPatches
    /\ usage' = mergeTokenUsage(usage, patch)
    /\ usagePrev' = usage
    /\ usagePatch' = patch
    /\ applied' = Append(applied, patch)
    /\ UsageFrame

\* streamingUsage = null at the start of the next exchange
ResetUsage ==
    /\ applied # <<>>
    /\ usage' = JNull
    /\ usagePrev' = JNull
    /\ usagePatch' = Undefined
    /\ applied' = <<>>
    /\ UsageFrame

UsageNext ==
    \/ \E patch \in UsagePatches : MergeUsage(patch)
    \/ ResetUsage

\* The patches ps merged from null in the order ps[order[1]], ps[order[2]], ...
RECURSIVE FoldUsage(_, _, _)
FoldUsage(ps, order, k) ==
    IF k = 0 THEN JNull
    ELSE mergeTokenUsage(FoldUsage(ps, order, k - 1), ps[order[k]])

\* C7: a merge never lowers a field that has a value and never removes it:
\* the new value is the maximum of the old value and the patch's value, and
\* the old value when the patch does not carry the field.
C7_MergeMonotonic ==
    \A k \in UsageKeys :
        IsNumber(Get(usagePrev, k)) =>
            /\ IsNumber(Get(usage, k))
            /\ Get(usage, k).n >= Get(usagePrev, k).n
            /\ Get(usage, k).n =
                   IF IsNumber(Get(usagePatch, k))
                   THEN Max(Get(usagePrev, k).n, Get(usagePatch, k).n)
                   ELSE Get(usagePrev, k).n

\* inputTokens was 5 and a patch with inputTokens 2 was merged.
C7_Witness ==
    /\ Get(usagePrev, "inputTokens") = JNum(5)
    /\ Get(usagePatch, "inputTokens") = JNum(2)
    /\ Get(usage, "inputTokens") = JNum(5)

\* C8: the patches merged so far give the same usage in whatever order they
\* are merged from null.
C8_OrderIndependent ==
    \A order \in Permutations(1..Len(applied)) :
        FoldUsage(applied, order, Len(applied)) = usage

\* C8 for the fields inputTokens and outputTokens alone.
C8_InputOutputOrderIndependent ==
    \A order \in Permutations(1..Len(applied)) :
        \A k \in {"inputTokens", "outputTokens"} :
            Get(FoldUsage(applied, order, Len(applied)), k) = Get(usage, k)

-----------------------------------------------------------------------------
(* Calls of the provider decoders on the payloads an upstream may send.    *)

Record(event, data) == [event |-> event, id |-> Null, data |-> data]

\* The usage object of an OpenAI chunk.
OpenAiUsage ==
    Compact([prompt_tokens |-> JNum(12), completion_tokens |-> JNum(34), total_tokens |-> JNum(46)])

\* OpenAI chunks {choices: [{delta, text}], usage} with every combination of
\* the fields the decoder reads present or absent.
OpenAiChunks ==
    {Compact([choices |-> JArr(<<Compact([
                  delta |-> Compact([content |-> c, reasoning |-> r,
                                     reasoning_content |-> q, thinking |-> k]),
                  text |-> t])>>),
              usage |-> u]) :
        c \in {Undefined, JStr(<<"c">>), JNum(1)},
        r \in {Undefined, JStr(<<"r">>)},
        q \in {Undefined, JStr(<<"q">>)},
        k \in {Undefined, JStr(<<"k">>)},
        t \in {Undefined, JStr(<<"t">>)},
        u \in {Undefined, OpenAiUsage}}

\* JSON values of other shapes.
OddValues ==
    { JNull, JNum(1), JStr(<<"s">>), JArr(<<>>), EmptyObj,
      Compact([choices |-> JArr(<<>>)]),
      Compact([choices |-> JArr(<<JNull>>)]),
      Compact([choices |-> JStr(<<"x", "y">>)]),
      Compact([choices |-> JArr(<<Compact([delta |-> JNull, text |-> JStr(<<"t">>)])>>)]),
      Compact([usage |-> OpenAiUsage]) }

\* Data texts that are not JSON.
NotJsonTexts == {DONE, EmptyText, PlainText(<<"{not json">>)}

OpenAiDatas ==
    {JsonText(v) : v \in OpenAiChunks \cup OddValues} \cup NotJsonTexts

BlockTypes == {<<"text">>, <<"thinking">>, <<"redacted_thinking">>, <<"thinking_summary">>}

BlockIndexes == {JNum(0), JNum(1)}

\* content_block_start payloads: a block index or none or a string, a block
\* type or none or a number.
AnthropicStarts ==
    {Compact([index |-> i, content_block |-> Compact([type |-> ty])]) :
        i \in BlockIndexes \cup {Undefined, JStr(<<"0">>)},
        ty \in {JStr(b) : b \in BlockTypes} \cup {Undefined, JNum(1)}}
    \cup {Compact([index |-> JNum(0)])}

\* content_block_delta payloads with every combination of the delta shapes.
AnthropicDeltas ==
    {Compact([index |-> i,
              delta |-> Compact([text |-> tx, thinking |-> th,
                                 text_delta |-> td, thinking_delta |-> hd])]) :
        i \in BlockIndexes \cup {Undefined},
        tx \in {Undefined, JStr(<<"x">>)},
        th \in {Undefined, JStr(<<"h">>), JStr(<<>>)},
        td \in {Undefined, Compact([text |-> JStr(<<"y">>)])},
        hd \in {Undefined, Compact([thinking |-> JStr(<<"g">>)])}}
    \cup {Compact([index |-> JNum(0)]),
          Compact([index |-> JNum(0),
                   delta |-> Compact([type |-> JStr(<<"text_delta">>), text |-> JStr(<<"x">>)])]),
          Compact([index |-> JNum(0),
                   delta |-> Compact([type |-> JStr(<<"thinking_delta">>), thinking |-> JStr(<<"h">>)])])}

\* The usage objects of message_start and message_delta.
AnthropicUsages ==
    {Compact([input_tokens |-> i, output_tokens |-> o]) :
        i \in {Undefined, JNum(9)}, o \in {Undefined, JNum(0), JNum(7)}}

\* message_start carries its usage in message.usage, message_delta in usage.
AnthropicMessageStarts ==
    {Compact([type |-> JStr(<<"message_start">>), message |-> Compact([usage |-> u])]) :
        u \in AnthropicUsages \cup {Undefined}}

AnthropicMessageDeltas ==
    {Compact([type |-> JStr(<<"message_delta">>), usage |-> u]) :
        u \in AnthropicUsages \cup {Undefined}}

AnthropicEvents ==
    {Record(<<"content_block_start">>, JsonText(v)) : v \in AnthropicStarts}
    \cup {Record(<<"content_block_delta">>, JsonText(v)) : v \in AnthropicDeltas}
    \cup {Record(<<"message_start">>, JsonText(v)) : v \in AnthropicMessageStarts}
    \cup {Record(<<"message_delta">>, JsonText(v)) : v \in AnthropicMessageDeltas}
    \cup {Record(e, d) : e \in {<<"content_block_start">>, <<"content_block_delta">>, <<"ping">>},
                         d \in NotJsonTexts}
    \cup {Record(<<"ping">>, JsonText(Compact([type |-> JStr(<<"ping">>)]))),
          Record(<<"message_stop">>, JsonText(Compact([type |-> JStr(<<"message_stop">>)]))),
          \* the event type taken from the payload
          Record(Null, JsonText(Compact([type |-> JStr(<<"content_block_start">>), index |-> JNum(1),
                                         content_block |-> Compact([type |-> JStr(<<"thinking">>)])]))),
          Record(Null, JsonText(Compact([type |-> JStr(<<"content_block_delta">>), index |-> JNum(1),
                                         delta |-> Compact([text |-> JStr(<<"x">>)])]))),
          Record(Null, JsonText(Compact([index |-> JNum(1)]))),
          Record(Null, JsonText(JNull))}

\* No decoder was called.
DecoderIdle ==
    /\ decProvider = "none"
    /\ decEvent = Record(Null, EmptyText)
    /\ decOut = NoDelta
    /\ decCtx = createAnthropicSseContext
    /\ decCtxBefore = createAnthropicSseContext
    /\ declared = <<>>

\* const ctx = createAnthropicSseContext()
DecoderInit == DecoderIdle

\* parseOpenAiSseData(data)
DecodeOpenAi(data) ==
    /\ decProvider' = "openai"
    /\ decEvent' = Record(Null, data)
    /\ decOut' = parseOpenAiSseData(data)
    /\ decCtxBefore' = decCtx
    /\ UNCHANGED <<decCtx, declared>>
    /\ DecoderFrame

\* The payload of an event whose data is JSON text.
Payload(event) == JsonParse(event.data)

HasPayload(event) == event.data.kind = "json"

\* The type of an event: its SSE event name, or else its payload's type.
EventType(event) ==
    IF event.event # Null THEN event.event
    ELSE IF IsString(Get(Payload(event), "type")) THEN Get(Payload(event), "type").s
    ELSE <<>>

\* The event is a content_block_start that declares a type for a block index.
Declares(event) ==
    /\ HasPayload(event)
    /\ EventType(event) = <<"content_block_start">>
    /\ IsInteger(Get(Payload(event), "index"))
    /\ IsString(Get(Get(Payload(event), "content_block"), "type"))

\* parseAnthropicSseEvent(event, ctx)
DecodeAnthropic(event) ==
    /\ LET r == parseAnthropicSseEvent(event, decCtx)
       IN  /\ decOut' = r.out
           /\ decCtx' = r.ctx
    /\ declared' =
          IF Declares(event)
          THEN [i \in (DOMAIN declared) \cup {Get(Payload(event), "index").n} |->
                   IF i = Get(Payload(event), "index").n
                   THEN Get(Get(Payload(event), "content_block"), "type").s
                   ELSE declared[i]]
          ELSE declared
    /\ decProvider' = "anthropic"
    /\ decEvent' = event
    /\ decCtxBefore' = decCtx
    /\ DecoderFrame

DecoderNext ==
    \/ \E data \in OpenAiDatas : DecodeOpenAi(data)
    \/ \E event \in AnthropicEvents : DecodeAnthropic(event)

-----------------------------------------------------------------------------
(* Properties of the decoder calls                                         *)

\* The text-shaped value of a delta: delta.text, or else delta.text_delta.text.
TextShaped(delta) ==
    IF IsString(Get(delta, "text")) THEN Get(delta, "text").s
    ELSE IF IsString(Get(Get(delta, "text_delta"), "text")) THEN Get(Get(delta, "text_delta"), "text").s
    ELSE <<>>

\* The thinking-shaped value of a delta: delta.thinking, or else
\* delta.thinking_delta.thinking.
ThinkingShaped(delta) ==
    IF IsString(Get(delta, "thinking")) THEN Get(delta, "thinking").s
    ELSE IF IsString(Get(Get(delta, "thinking_delta"), "thinking"))
         THEN Get(Get(delta, "thinking_delta"), "thinking").s
    ELSE <<>>

\* The last call decoded a content_block_delta event.
LastWasBlockDelta ==
    /\ decProvider = "anthropic"
    /\ HasPayload(decEvent)
    /\ EventType(decEvent) = <<"content_block_delta">>

\* The block type declared for the index of the last event: <<>> when none.
DeclaredType ==
    LET i == Get(Payload(decEvent), "index")
    IN  IF IsInteger(i) /\ i.n \in DOMAIN declared THEN declared[i.n] ELSE <<>>

\* C4: a content_block_delta at an index whose latest content_block_start
\* declared thinking, redacted_thinking or thinking_summary returns no content
\* and, as thinking, the thinking-shaped value or else the text-shaped value;
\* at any other index it returns the text-shaped value as content and the
\* thinking-shaped value as thinking.
C4_RoutingByBlockType ==
    LastWasBlockDelta =>
        LET delta == Get(Payload(decEvent), "delta")
        IN  IF DeclaredType \in {<<"thinking">>, <<"redacted_thinking">>, <<"thinking_summary">>}
            THEN /\ decOut.contentDelta = <<>>
                 /\ decOut.thinkingDelta =
                        IF ThinkingShaped(delta) # <<>> THEN ThinkingShaped(delta) ELSE TextShaped(delta)
            ELSE /\ decOut.contentDelta = TextShaped(delta)
                 /\ decOut.thinkingDelta = ThinkingShaped(delta)

\* A delta that carries only text, at an index declared redacted_thinking,
\* was returned as thinking.
C4_Witness ==
    /\ LastWasBlockDelta
    /\ DeclaredType = <<"redacted_thinking">>
    /\ ThinkingShaped(Get(Payload(decEvent), "delta")) = <<>>
    /\ decOut.thinkingDelta = <<"x">>
    /\ decOut.contentDelta = <<>>

\* C9: a chunk whose usage object carries prompt_tokens, completion_tokens and
\* total_tokens makes parseOpenAiSseData return usage {inputTokens,
\* outputTokens, totalTokens} with the same numbers.
C9_OpenAiUsageExtracted ==
    (/\ decProvider = "openai"
     /\ HasPayload(decEvent)
     /\ IsNumber(Get(Get(Payload(decEvent), "usage"), "prompt_tokens"))
     /\ IsNumber(Get(Get(Payload(decEvent), "usage"), "completion_tokens"))
     /\ IsNumber(Get(Get(Payload(decEvent), "usage"), "total_tokens")))
    => decOut.usage =
           Compact([inputTokens  |-> Get(Get(Payload(decEvent), "usage"), "prompt_tokens"),
                    outputTokens |-> Get(Get(Payload(decEvent), "usage"), "completion_tokens"),
                    totalTokens  |-> Get(Get(Payload(decEvent), "usage"), "total_tokens")])

\* The usage object a message_start (message.usage) or message_delta (usage)
\* event carries; undefined when it carries none.
CarriedUsage(event) ==
    IF EventType(event) = <<"message_start">>
    THEN Coalesce(Get(Get(Payload(event), "message"), "usage"), Get(Payload(event), "usage"))
    ELSE Get(Payload(event), "usage")

\* C10: a message_start or message_delta event that carries a usage object
\* makes parseAnthropicSseEvent return a usage object whose inputTokens and
\* outputTokens are the event's input_tokens and output_tokens, absent when
\* those are absent, with empty deltas.
C10_AnthropicUsageExtracted ==
    (/\ decProvider = "anthropic"
     /\ HasPayload(decEvent)
     /\ EventType(decEvent) \in {<<"message_start">>, <<"message_delta">>}
     /\ CarriedUsage(decEvent).t = "object")
    => /\ decOut.usage.t = "object"
       /\ Get(decOut.usage, "inputTokens") = Get(CarriedUsage(decEvent), "input_tokens")
       /\ Get(decOut.usage, "outputTokens") = Get(CarriedUsage(decEvent), "output_tokens")
       /\ decOut.contentDelta = <<>>
       /\ decOut.thinkingDelta = <<>>

\* The first of the values that is a string, as text; '' when none is.
RECURSIVE FirstString(_)
FirstString(values) ==
    IF values = <<>> THEN <<>>
    ELSE IF Head(values).t = "string" THEN Head(values).s
    ELSE FirstString(Tail(values))

\* The last call decoded an OpenAI payload that is JSON.
LastWasOpenAiPayload ==
    decProvider = "openai" /\ HasPayload(decEvent)

\* choices[0] and choices[0].delta of the last payload, undefined when the
\* payload has none.
LastChoice == First(Get(Payload(decEvent), "choices"))

LastDelta == Get(LastChoice, "delta")

\* C11: for every parsed OpenAI payload, contentDelta is
\* choices[0].delta.content when that is a string, else choices[0].text when
\* that is a string, else ''; thinkingDelta is the first of delta.reasoning,
\* delta.reasoning_content, delta.thinking that is a string, else ''; each is
\* decided by its own fields alone, and done is false.
C11_OpenAiFieldPriority ==
    LastWasOpenAiPayload =>
        /\ decOut.done = FALSE
        /\ decOut.contentDelta =
               FirstString(<<Get(LastDelta, "content"), Get(LastChoice, "text")>>)
        /\ decOut.thinkingDelta =
               FirstString(<<Get(LastDelta, "reasoning"), Get(LastDelta, "reasoning_content"),
                             Get(LastDelta, "thinking")>>)

\* A chunk whose delta.content is a number and which carries the legacy
\* text, no reasoning, and both reasoning_content and thinking, was decoded:
\* the content came from the legacy text, the thinking from reasoning_content.
C11_Witness ==
    /\ LastWasOpenAiPayload
    /\ Get(LastDelta, "content") = JNum(1)
    /\ Get(LastDelta, "reasoning") = Undefined
    /\ Get(LastDelta, "thinking") = JStr(<<"k">>)
    /\ decOut.contentDelta = <<"t">>
    /\ decOut.thinkingDelta = <<"q">>

-----------------------------------------------------------------------------
(* The page's stream handler: src/routes/+page.svelte                      *)
(*                                                                         *)
(* A function of the page that assigns page state is an action formula;    *)
(* the value it returns is its last parameter.  The debug panel's session  *)
(* record is left out.                                                     *)

\* The text of a data field as a string: the text itself when it is not
\* JSON, one token for the serialisation of a JSON value.
RawText(data) == IF data.kind = "plain" THEN data.text ELSE <<"{json}">>

\* `${status}`
StatusText(v) == IF IsNumber(v) THEN <<ToString(v.n)>> ELSE JsString(v)

\* parseProxyErrorEvent(event): null, or the upstream error object.
parseProxyErrorEvent(event) ==
    IF event.event # <<"error">> THEN JNull
    ELSE IF ParseThrows(event.data) THEN Compact([message |-> JStr(RawText(event.data))])
    ELSE IF ~Truthy(Get(JsonParse(event.data), "message"))
         THEN Compact([message |-> JStr(RawText(event.data))])
    ELSE JsonParse(event.data)

\* looksLikeUsageUnsupportedError(err); a message is a sequence of words.
looksLikeUsageUnsupportedError(err) ==
    LET raw == IF IsString(Get(err, "message")) THEN Get(err, "message").s ELSE <<>>
        msg == ToLowerCase(raw)
    IN  \E i \in 1..Len(msg) : msg[i] \in {"stream_options", "include_usage"}

\* A plausible slip: the HTTP status of the upstream error is not shown.
UpstreamErrorTextWithoutStatus(proxyErr) == JsString(Get(proxyErr, "message"))

\* error = proxyErr.status ? `<upstream error (HTTP ${status}): >${message}` : message
\* (the words of the template are given in English)
UpstreamErrorText(proxyErr) ==
    IF Truthy(Get(proxyErr, "status"))
    THEN <<"upstream error (HTTP ">> \o StatusText(Get(proxyErr, "status")) \o <<"): ">>
             \o JsString(Get(proxyErr, "message"))
    ELSE JsString(Get(proxyErr, "message"))

\* The part applyOpenAiDelta and applyAnthropicDelta share: the thinking
\* delta goes to the thinking draft, the content delta through the splitter.
ApplyDeltas(contentDelta, thinkingDelta) ==
    IF contentDelta # <<>>
    THEN \E r \in {push(thoughtSplitter, contentDelta)} :
            /\ thoughtSplitter' = [buffer |-> r.buffer, inThinking |-> r.inThinking]
            /\ assistantDraft' = assistantDraft \o r.out.contentDelta
            /\ assistantThinkingDraft' =
                  (assistantThinkingDraft \o thinkingDelta) \o r.out.thinkingDelta
    ELSE /\ assistantThinkingDraft' = assistantThinkingDraft \o thinkingDelta
         /\ UNCHANGED <<thoughtSplitter, assistantDraft>>

\* if (usage) streamingUsage = mergeTokenUsage(streamingUsage, usage)
ApplyUsage(patch) ==
    streamingUsage' = IF Truthy(patch) THEN mergeTokenUsage(streamingUsage, patch)
                      ELSE streamingUsage

\* A plausible slip: the handler does not stop at the sentinel.
applyOpenAiDeltaPastDone(event, keepGoing) ==
    \E r \in {parseOpenAiSseData(event.data)} :
        /\ ApplyUsage(r.usage)
        /\ keepGoing = TRUE
        /\ ApplyDeltas(r.contentDelta, r.thinkingDelta)
        /\ UNCHANGED anthropicCtx

\* applyOpenAiDelta(event), which returns keepGoing.
applyOpenAiDelta(event, keepGoing) ==
    \E r \in {parseOpenAiSseData(event.data)} :
        /\ ApplyUsage(r.usage)
        /\ IF r.done
           THEN /\ keepGoing = FALSE
                /\ UNCHANGED <<thoughtSplitter, assistantDraft, assistantThinkingDraft>>
           ELSE /\ keepGoing = TRUE
                /\ ApplyDeltas(r.contentDelta, r.thinkingDelta)
        /\ UNCHANGED anthropicCtx

\* applyAnthropicDelta(event), which returns keepGoing.
applyAnthropicDelta(event, keepGoing) ==
    \E r \in {parseAnthropicSseEvent(event, anthropicCtx)} :
        /\ anthropicCtx' = r.ctx
        /\ ApplyUsage(r.out.usage)
        /\ ApplyDeltas(r.out.contentDelta, r.out.thinkingDelta)
        /\ keepGoing = TRUE

\* The handler send() gives to streamSse, which returns keepGoing.
onEvent(event, keepGoing) ==
    /\ lastEvent' = event.event
    /\ \E proxyErr \in {parseProxyErrorEvent(event)} :
          IF Truthy(proxyErr)
          THEN /\ keepGoing = FALSE
               /\ IF /\ provider = "openai"
                     /\ includeUsage
                     /\ ~didRetryWithoutUsage
                     /\ Get(proxyErr, "status") = JNum(400)
                     /\ looksLikeUsageUnsupportedError(proxyErr)
                  THEN retryWithoutUsage' = TRUE /\ UNCHANGED error
                  ELSE error' = UpstreamErrorText(proxyErr) /\ UNCHANGED retryWithoutUsage
               /\ UNCHANGED <<assistantDraft, assistantThinkingDraft, streamingUsage,
                              thoughtSplitter, anthropicCtx>>
          ELSE /\ IF provider = "openai"
                  THEN applyOpenAiDelta(event, keepGoing)
                  ELSE applyAnthropicDelta(event, keepGoing)
               /\ UNCHANGED <<error, retryWithoutUsage>>

\* The deltas decoded so far from the answer to the latest request, after
\* the handler was given the record: what the decoder returns for it is put
\* behind them, unless the record is an upstream error, which is not decoded.
ReceivedAfter(event) ==
    IF Truthy(parseProxyErrorEvent(event)) THEN received
    ELSE LET out == IF provider = "openai" THEN parseOpenAiSseData(event.data)
                    ELSE parseAnthropicSseEvent(event, anthropicCtx).out
         IN  [content  |-> received.content \o out.contentDelta,
              thinking |-> received.thinking \o out.thinkingDelta]

\* What the log keeps of one invocation of the handler: the record, whether
\* it went to a decoder and what the decoder returned, the value the handler
\* returned, and what the invocation left as it was.
LogEntry(event, keepGoing) ==
    [event      |-> event,
     provider   |-> provider,
     decoded    |-> ~Truthy(parseProxyErrorEvent(event)),
     out        |-> IF provider = "openai" THEN parseOpenAiSseData(event.data)
                    ELSE parseAnthropicSseEvent(event, anthropicCtx).out,
     keepGoing  |-> keepGoing,
     ctxSame    |-> anthropicCtx' = anthropicCtx,
     errorSame  |-> error' = error,
     draftsSame |-> /\ assistantDraft' = assistantDraft
                    /\ assistantThinkingDraft' = assistantThinkingDraft
                    /\ streamingUsage' = streamingUsage
                    /\ thoughtSplitter' = thoughtSplitter]

-----------------------------------------------------------------------------
(* The exchange orchestrator: send() and what the user and the network do  *)
(* while it is suspended.                                                  *)

\* Bound: number of sends accepted in one run.
MaxSends == 2

\* Bound: number of records the upstream delivers in one run.
MaxRecords == 2

\* error = 'stopped.' (the texts of the page are given in English)
Stopped == <<"stopped.">>

ErrBaseUrl == <<"fill in the upstream Base URL">>

ErrApiKey == <<"fill in the API Key">>

ErrModel == <<"fill in the model name">>

\* The message of the exception a failed fetch or a failed read throws.
TransportFailure == <<"Failed to fetch">>

\* showNotice(...) of the retry without usage
RetryNotice == <<"usage turned off, retrying">>

\* error = `<proxy request failed (HTTP ${res.status})>${text ? `: ${text}` : ''}`
ProxyErrorText(status, text) ==
    <<"proxy request failed (HTTP ">> \o <<ToString(status)>> \o <<")">>
        \o (IF text # <<>> THEN <<": ">> \o text ELSE <<>>)

\* What the fields hold at the time of a send: all filled in, one of them
\* blank, or every setting blank.
Form(prompt, baseUrl, apiKey, model) ==
    [prompt |-> prompt, baseUrl |-> baseUrl, apiKey |-> apiKey, model |-> model]

Forms ==
    { Form(<<"h", " ">>, <<"u">>, <<"k">>, <<"m">>),
      Form(<<" ">>, <<"u">>, <<"k">>, <<"m">>),
      Form(<<"h", " ">>, <<" ">>, <<"k">>, <<"m">>),
      Form(<<"h", " ">>, <<"u">>, <<>>, <<"m">>),
      Form(<<"h", " ">>, <<"u">>, <<"k">>, <<" ">>),
      Form(<<"h", " ">>, <<>>, <<>>, <<>>) }

\* Bodies of a non-2xx proxy response.
ErrorBodies == {<<>>, <<"bad gateway">>}

OpenAiContent(text) ==
    JsonText(Compact([choices |-> JArr(<<Compact([delta |-> Compact([content |-> JStr(text)])])>>)]))

\* The records an upstream may deliver to the page.
StreamRecords ==
    { Record(Null, OpenAiContent(<<"x">>)),
      Record(Null, OpenAiContent(<<"<">>)),
      Record(Null, OpenAiContent(<<" ">>)),
      Record(Null, OpenAiContent(<<"<", "t", "h", "i", "n", "k", ">">>)),
      Record(Null, JsonText(Compact([choices |-> JArr(<<Compact([delta |->
                       Compact([reasoning |-> JStr(<<"r">>)])])>>),
                                      usage |-> OpenAiUsage]))),
      Record(Null, DONE),
      Record(Null, PlainText(<<"{not json">>)),
      Record(<<"content_block_start">>,
             JsonText(Compact([index |-> JNum(0),
                               content_block |-> Compact([type |-> JStr(<<"thinking">>)])]))),
      Record(<<"content_block_delta">>,
             JsonText(Compact([index |-> JNum(0),
                               delta |-> Compact([text |-> JStr(<<"x">>)])]))),
      Record(<<"error">>,
             JsonText(Compact([status |-> JNum(400),
                               message |-> JStr(<<"unknown parameter: ", "stream_options">>)]))),
      Record(<<"error">>,
             JsonText(Compact([status |-> JNum(422),
                               message |-> JStr(<<"extra field: ", "include_usage">>)]))),
      Record(<<"error">>, PlainText(<<"boom">>)) }

\* The records one read makes ready: one frame, or two in the same chunk.
Batches ==
    {<<a>> : a \in StreamRecords} \cup {<<a, b>> : a \in StreamRecords, b \in StreamRecords}

NoSnapshot == <<>>

\* No delta was decoded.
NoText == [content |-> <<>>, thinking |-> <<>>]

\* The page before any exchange.
PageIdle ==
    /\ provider = "openai"
    /\ includeUsage = TRUE
    /\ streaming = FALSE
    /\ abortController = "null"
    /\ messages = <<>>
    /\ assistantDraft = <<>>
    /\ assistantThinkingDraft = <<>>
    /\ streamingUsage = JNull
    /\ error = Null
    /\ lastEvent = Null
    /\ notice = Null
    /\ thoughtSplitter = NewSplitter
    /\ anthropicCtx = createAnthropicSseContext
    /\ didRetryWithoutUsage = FALSE
    /\ retryWithoutUsage = FALSE
    /\ pc = "idle"
    /\ pending = <<>>
    /\ readerState = "none"
    /\ sends = 0
    /\ requests = 0
    /\ delivered = 0
    /\ streamOptions = FALSE
    /\ received = NoText
    /\ handled = <<>>
    /\ unhandled = 0
    /\ atDone = NoSnapshot

PageInit == PageIdle

\* A plausible slip: the finally block keeps no partial answer of an
\* exchange the user stopped.
FinallyDropsStopped ==
    LET flushed       == flush(thoughtSplitter).out
        finalText     == Trim(assistantDraft \o flushed.contentDelta)
        finalThinking == Trim(assistantThinkingDraft \o flushed.thinkingDelta)
    IN  /\ streaming' = FALSE
        /\ abortController' = "null"
        /\ thoughtSplitter' = [buffer |-> <<>>, inThinking |-> thoughtSplitter.inThinking]
        /\ messages' =
              IF (finalText # <<>> \/ finalThinking # <<>>) /\ abortController # "aborted"
              THEN Append(messages,
                          [role     |-> "assistant",
                           content  |-> finalText,
                           thinking |-> IF finalThinking # <<>> THEN JStr(finalThinking)
                                        ELSE Undefined,
                           usage    |-> Coalesce(streamingUsage, Undefined)])
              ELSE messages
        /\ assistantDraft' = <<>>
        /\ assistantThinkingDraft' = <<>>
        /\ streamingUsage' = JNull
        /\ pc' = "idle"

\* A plausible slip: the finally block does not let go of the abort
\* controller.
FinallyKeepsController ==
    LET flushed       == flush(thoughtSplitter).out
        finalText     == Trim(assistantDraft \o flushed.contentDelta)
        finalThinking == Trim(assistantThinkingDraft \o flushed.thinkingDelta)
    IN  /\ streaming' = FALSE
        /\ abortController' = abortController
        /\ thoughtSplitter' = [buffer |-> <<>>, inThinking |-> thoughtSplitter.inThinking]
        /\ messages' =
              IF finalText # <<>> \/ finalThinking # <<>>
              THEN Append(messages,
                          [role     |-> "assistant",
                           content  |-> finalText,
                           thinking |-> IF finalThinking # <<>> THEN JStr(finalThinking)
                                        ELSE Undefined,
                           usage    |-> Coalesce(streamingUsage, Undefined)])
              ELSE messages
        /\ assistantDraft' = <<>>
        /\ assistantThinkingDraft' = <<>>
        /\ streamingUsage' = JNull
        /\ pc' = "idle"

\* The finally block of send(): flush, append the assistant message, clear
\* the drafts.
Finally ==
    LET flushed       == flush(thoughtSplitter).out
        finalText     == Trim(assistantDraft \o flushed.contentDelta)
        finalThinking == Trim(assistantThinkingDraft \o flushed.thinkingDelta)
    IN  /\ streaming' = FALSE
        /\ abortController' = "null"
        /\ thoughtSplitter' = [buffer |-> <<>>, inThinking |-> thoughtSplitter.inThinking]
        /\ messages' =
              IF finalText # <<>> \/ finalThinking # <<>>
              THEN Append(messages,
                          [role     |-> "assistant",
                           content  |-> finalText,
                           thinking |-> IF finalThinking # <<>> THEN JStr(finalThinking)
                                        ELSE Undefined,
                           usage    |-> Coalesce(streamingUsage, Undefined)])
              ELSE messages
        /\ assistantDraft' = <<>>
        /\ assistantThinkingDraft' = <<>>
        /\ streamingUsage' = JNull
        /\ pc' = "idle"

\* The fields an exchange works on and a rejected send leaves alone.
exchangeVars ==
    <<streaming, abortController, messages, assistantDraft, assistantThinkingDraft,
      streamingUsage, thoughtSplitter, anthropicCtx, didRetryWithoutUsage,
      retryWithoutUsage, pc, pending, readerState, sends, requests,
      streamOptions, received, handled,
      unhandled, atDone>>

\* request.stream_options of the request send() builds, when the retry
\* without usage was or was not made: includeUsage && !didRetryWithoutUsage
\* ? { include_usage: true } : undefined, in the request of an OpenAI exchange.
StreamOptions(didRetry) == provider = "openai" /\ includeUsage /\ ~didRetry

\* send() goes past its guards.
Accepted(prompt, baseUrl, apiKey, model) ==
    /\ ~streaming
    /\ Trim(prompt) # <<>>
    /\ Trim(baseUrl) # <<>>
    /\ Trim(apiKey) # <<>>
    /\ Trim(model) # <<>>

\* A plausible slip: send() does not look at streaming.
SilentReturnBlankOnly(prompt) == Trim(prompt) = <<>>

\* if (streaming) return; if (!prompt.trim()) return;
SilentReturn(prompt) == streaming \/ Trim(prompt) = <<>>

\* send(), up to its first await (the fetch of the proxy).
Send(prompt, baseUrl, apiKey, model) ==
    /\ pc # "handling"
    /\ Accepted(prompt, baseUrl, apiKey, model) => sends < MaxSends
    /\ notice' = Null
    /\ lastEvent' = Null
    /\ IF SilentReturn(prompt)
       THEN error' = Null /\ UNCHANGED exchangeVars
       ELSE IF Trim(baseUrl) = <<>>
       THEN error' = ErrBaseUrl /\ UNCHANGED exchangeVars
       ELSE IF Trim(apiKey) = <<>>
       THEN error' = ErrApiKey /\ UNCHANGED exchangeVars
       ELSE IF Trim(model) = <<>>
       THEN error' = ErrModel /\ UNCHANGED exchangeVars
       ELSE /\ error' = Null
            /\ messages' = Append(messages,
                                  [role |-> "user", content |-> Trim(prompt),
                                   thinking |-> Undefined, usage |-> Undefined])
            /\ assistantDraft' = <<>>
            /\ assistantThinkingDraft' = <<>>
            /\ streamingUsage' = JNull
            /\ thoughtSplitter' = reset(thoughtSplitter)
            /\ anthropicCtx' = createAnthropicSseContext
            /\ streaming' = TRUE
            /\ abortController' = "live"
            /\ didRetryWithoutUsage' = FALSE
            /\ retryWithoutUsage' = FALSE
            /\ pc' = "fetching"
            /\ pending' = <<>>
            /\ readerState' = "none"
            /\ sends' = sends + 1
            /\ requests' = 1
            /\ streamOptions' = StreamOptions(FALSE)
            /\ received' = NoText
            /\ handled' = <<>>
            /\ unhandled' = 0
            /\ atDone' = NoSnapshot
    /\ UNCHANGED <<provider, includeUsage, delivered>>
    /\ PageFrame

\* stop(): abortController?.abort()
Stop ==
    /\ pc # "handling"
    /\ abortController = "live"
    /\ abortController' = "aborted"
    /\ UNCHANGED <<provider, includeUsage, streaming, messages, assistantDraft,
                   assistantThinkingDraft, streamingUsage, error, lastEvent, notice,
                   thoughtSplitter, anthropicCtx, didRetryWithoutUsage, retryWithoutUsage,
                   pc, pending, readerState, sends, requests, delivered,
                   streamOptions, received, handled,
                   unhandled, atDone>>
    /\ PageFrame

\* switchProvider(next); the select is disabled while streaming.
SwitchProvider(next) ==
    /\ ~streaming
    /\ next # provider
    /\ provider' = next
    /\ lastEvent' = Null
    /\ error' = Null
    /\ UNCHANGED <<includeUsage, notice, delivered>>
    /\ UNCHANGED exchangeVars
    /\ PageFrame

\* The includeUsage checkbox, which is enabled at all times.
ToggleIncludeUsage ==
    /\ pc # "handling"
    /\ includeUsage' = ~includeUsage
    /\ UNCHANGED <<provider, error, lastEvent, notice, delivered>>
    /\ UNCHANGED exchangeVars
    /\ PageFrame

\* The timer of showNotice: notice = null
NoticeExpires ==
    /\ pc # "handling"
    /\ notice # Null
    /\ notice' = Null
    /\ UNCHANGED <<provider, includeUsage, error, lastEvent, delivered>>
    /\ UNCHANGED exchangeVars
    /\ PageFrame

\* await fetch(...) resolves: with res.ok, streamSse locks a reader and
\* awaits its first read; otherwise send() awaits res.text().
FetchResolves(ok) ==
    /\ pc = "fetching"
    /\ abortController = "live"
    /\ IF ok
       THEN /\ pc' = "streaming"
            /\ readerState' = "locked"
            /\ retryWithoutUsage' = FALSE
            /\ handled' = <<>>
            /\ unhandled' = 0
            /\ atDone' = NoSnapshot
       ELSE /\ pc' = "errorText"
            /\ UNCHANGED <<readerState, retryWithoutUsage, handled, unhandled, atDone>>
    /\ UNCHANGED <<provider, includeUsage, streaming, abortController, messages,
                   assistantDraft, assistantThinkingDraft, streamingUsage, error,
                   lastEvent, notice, thoughtSplitter, anthropicCtx,
                   didRetryWithoutUsage, pending, sends, requests, delivered,
                   streamOptions, received>>
    /\ PageFrame

\* A plausible slip: the catch block does not ask whether the signal fired.
CatchErrorGeneric == TransportFailure

\* The catch block of send(): the error after an exception.
CatchError == IF abortController = "aborted" THEN Stopped ELSE TransportFailure

\* await fetch(...) rejects (the signal fired, or the network failed):
\* the catch block, then the finally block.
FetchRejects ==
    /\ pc = "fetching"
    /\ error' = CatchError
    /\ Finally
    /\ UNCHANGED <<provider, includeUsage, lastEvent, notice, anthropicCtx,
                   didRetryWithoutUsage, retryWithoutUsage, pending, readerState, sends,
                   requests, delivered, streamOptions, received, handled, unhandled, atDone>>
    /\ PageFrame

\* if (!res.ok): res.text() settles, the error is set, send() returns
\* through the finally block.
ErrorTextSettles(status, text) ==
    /\ pc = "errorText"
    /\ error' = ProxyErrorText(status, text)
    /\ Finally
    /\ UNCHANGED <<provider, includeUsage, lastEvent, notice, anthropicCtx,
                   didRetryWithoutUsage, retryWithoutUsage, pending, readerState, sends,
                   requests, delivered, streamOptions, received, handled, unhandled, atDone>>
    /\ PageFrame

\* streamSse: a read resolves with a chunk that makes the records of batch
\* ready.  A read pending when the signal fires rejects, so the signal has
\* not fired when a read resolves.
StreamRead(batch) ==
    /\ pc = "streaming"
    /\ abortController = "live"
    /\ delivered + Len(batch) <= MaxRecords
    /\ pc' = "handling"
    /\ pending' = batch
    /\ delivered' = delivered + Len(batch)
    /\ handled' = <<>>
    /\ unhandled' = 0
    /\ UNCHANGED <<provider, includeUsage, streaming, abortController, messages,
                   assistantDraft, assistantThinkingDraft, streamingUsage, error,
                   lastEvent, notice, thoughtSplitter, anthropicCtx,
                   didRetryWithoutUsage, retryWithoutUsage, readerState, sends,
                   requests, streamOptions, received, atDone>>
    /\ PageFrame

\* A plausible slip: the loop over a chunk looks at what the handler
\* returned only after the last record of the chunk.
HandleWholeChunk ==
    /\ pc = "handling"
    /\ \E keepGoing \in BOOLEAN :
          /\ onEvent(Head(pending), keepGoing)
          /\ handled' = Append(handled, LogEntry(Head(pending), keepGoing))
          /\ received' = ReceivedAfter(Head(pending))
          /\ UNCHANGED streamOptions
          /\ atDone' = IF Head(pending).data = DONE
                       THEN <<assistantDraft', assistantThinkingDraft', streamingUsage'>>
                       ELSE atDone
          /\ IF Tail(pending) # <<>>
             THEN /\ pending' = Tail(pending)
                  /\ pc' = "handling"
                  /\ UNCHANGED <<readerState, unhandled>>
             ELSE IF keepGoing /\ abortController = "aborted"
             THEN /\ pending' = <<>>
                  /\ pc' = "cancelling"
                  /\ readerState' = "cancelled"
                  /\ UNCHANGED unhandled
             ELSE IF keepGoing
             THEN /\ pending' = <<>>
                  /\ pc' = "streaming"
                  /\ UNCHANGED <<readerState, unhandled>>
             ELSE /\ pending' = <<>>
                  /\ unhandled' = Len(Tail(pending))
                  /\ pc' = "cancelling"
                  /\ readerState' = "cancelled"
    /\ UNCHANGED <<provider, includeUsage, streaming, abortController, messages, notice,
                   didRetryWithoutUsage, sends, requests, delivered>>
    /\ PageFrame

\* streamSse: one turn of for (const event of parseSseChunk(ready)): the
\* handler is run on the next record; when it returns false the reader is
\* cancelled and the rest of the chunk is dropped.  After the last record
\* of the chunk the while loop looks at the signal: when it has fired the
\* reader is cancelled and streamSse returns without throwing; otherwise
\* the next read is awaited.  The loop is synchronous: nothing else runs
\* until the chunk is done.
Handle ==
    /\ pc = "handling"
    /\ \E keepGoing \in BOOLEAN :
          /\ onEvent(Head(pending), keepGoing)
          /\ handled' = Append(handled, LogEntry(Head(pending), keepGoing))
          /\ received' = ReceivedAfter(Head(pending))
          /\ UNCHANGED streamOptions
          /\ atDone' = IF Head(pending).data = DONE
                       THEN <<assistantDraft', assistantThinkingDraft', streamingUsage'>>
                       ELSE atDone
          /\ IF keepGoing /\ Tail(pending) # <<>>
             THEN /\ pending' = Tail(pending)
                  /\ pc' = "handling"
                  /\ UNCHANGED <<readerState, unhandled>>
             ELSE IF keepGoing /\ abortController = "aborted"
             THEN /\ pending' = <<>>
                  /\ pc' = "cancelling"
                  /\ readerState' = "cancelled"
                  /\ UNCHANGED unhandled
             ELSE IF keepGoing
             THEN /\ pending' = <<>>
                  /\ pc' = "streaming"
                  /\ UNCHANGED <<readerState, unhandled>>
             ELSE /\ pending' = <<>>
                  /\ unhandled' = Len(Tail(pending))
                  /\ pc' = "cancelling"
                  /\ readerState' = "cancelled"
    /\ UNCHANGED <<provider, includeUsage, streaming, abortController, messages, notice,
                   didRetryWithoutUsage, sends, requests, delivered>>
    /\ PageFrame

\* A read resolves with done: streamSse releases the lock and returns,
\* retryWithoutUsage is false, send() leaves its loop through finally.
StreamEnd ==
    /\ pc = "streaming"
    /\ abortController = "live"
    /\ readerState' = "released"
    /\ Finally
    /\ UNCHANGED <<provider, includeUsage, error, lastEvent, notice, anthropicCtx,
                   didRetryWithoutUsage, retryWithoutUsage, pending, sends, requests,
                   delivered, streamOptions, received, handled, unhandled, atDone>>
    /\ PageFrame

\* A read rejects (the signal fired, or the network failed): streamSse
\* releases the lock and throws into the catch block of send().
ReadRejects ==
    /\ pc = "streaming"
    /\ readerState' = "released"
    /\ error' = CatchError
    /\ Finally
    /\ UNCHANGED <<provider, includeUsage, lastEvent, notice, anthropicCtx,
                   didRetryWithoutUsage, retryWithoutUsage, pending, sends, requests,
                   delivered, streamOptions, received, handled, unhandled, atDone>>
    /\ PageFrame

\* await reader.cancel() settles after the handler returned false:
\* streamSse returns; send() either retries without usage or ends.
CancelSettles ==
    /\ pc = "cancelling"
    /\ readerState' = "released"
    /\ IF retryWithoutUsage
       THEN /\ didRetryWithoutUsage' = TRUE
            /\ includeUsage' = FALSE
            /\ notice' = RetryNotice
            /\ assistantDraft' = <<>>
            /\ assistantThinkingDraft' = <<>>
            /\ streamingUsage' = JNull
            /\ thoughtSplitter' = reset(thoughtSplitter)
            /\ requests' = requests + 1
            /\ streamOptions' = StreamOptions(TRUE)
            /\ received' = NoText
            /\ pc' = "fetching"
            /\ UNCHANGED <<streaming, abortController, messages>>
       ELSE /\ Finally
            /\ UNCHANGED <<didRetryWithoutUsage, includeUsage, notice, requests,
                           streamOptions, received>>
    /\ UNCHANGED <<provider, error, lastEvent, anthropicCtx, retryWithoutUsage, pending,
                   sends, delivered, handled, unhandled, atDone>>
    /\ PageFrame

\* What happens to a suspended send() without the user: the promise it
\* awaits settles.  A read that settles with one more chunk is not among
\* these: a response body is finite, so a pending read is in the end
\* settled by the end of the body or by a rejection.
Settles ==
    \/ \E ok \in BOOLEAN : FetchResolves(ok)
    \/ FetchRejects
    \/ \E text \in ErrorBodies : ErrorTextSettles(502, text)
    \/ StreamEnd
    \/ ReadRejects
    \/ CancelSettles

PageNext ==
    \/ \E f \in Forms : Send(f.prompt, f.baseUrl, f.apiKey, f.model)
    \/ Stop
    \/ \E next \in {"openai", "anthropic"} : SwitchProvider(next)
    \/ ToggleIncludeUsage
    \/ NoticeExpires
    \/ \E ok \in BOOLEAN : FetchResolves(ok)
    \/ FetchRejects
    \/ \E text \in ErrorBodies : ErrorTextSettles(502, text)
    \/ \E batch \in Batches : StreamRead(batch)
    \/ Handle
    \/ StreamEnd
    \/ ReadRejects
    \/ CancelSettles

-----------------------------------------------------------------------------
(* Properties of the exchange                                              *)

\* The records of the last read that were handled with data [DONE] in an
\* OpenAI exchange.
DoneHandled ==
    {i \in 1..Len(handled) :
        handled[i].provider = "openai" /\ handled[i].event.data = DONE}

\* C5: parseOpenAiSseData('[DONE]') returns done = true with empty deltas;
\* and in an OpenAI exchange, once a record with data [DONE] has been
\* handled, the handler has returned false, the reader is stopped, no later
\* record of the stream is handled, and until the exchange is finalised the
\* drafts and the usage are what they were right after the sentinel.
C5_DoneStopsExchange ==
    /\ parseOpenAiSseData(DONE).done = TRUE
    /\ parseOpenAiSseData(DONE).contentDelta = <<>>
    /\ parseOpenAiSseData(DONE).thinkingDelta = <<>>
    /\ \A i \in DoneHandled :
          /\ i = Len(handled)
          /\ ~handled[i].keepGoing
          /\ pending = <<>>
          /\ pc \in {"cancelling", "idle"}
          /\ readerState \in {"cancelled", "released"}
          /\ pc = "cancelling" =>
                atDone = <<assistantDraft, assistantThinkingDraft, streamingUsage>>

\* The sentinel was handled while another record of the same chunk was
\* waiting behind it.
C5_Witness ==
    /\ DoneHandled # {}
    /\ unhandled >= 1
    /\ pc = "cancelling"

\* The invocations of the last read that gave a decoder a data text which
\* is not valid JSON.
MalformedHandled ==
    {i \in 1..Len(handled) : handled[i].decoded /\ ParseThrows(handled[i].event.data)}

\* What C6 says of the invocation e of the handler.
DegradesToNothing(e) ==
    /\ e.out.contentDelta = <<>>
    /\ e.out.thinkingDelta = <<>>
    /\ e.provider = "openai" => e.out.done = FALSE
    /\ e.ctxSame
    /\ e.errorSame
    /\ e.keepGoing

\* The decoders on a text that is not JSON, whatever the event name and the
\* remembered block types.
DecodersDegrade(texts) ==
    /\ \A d \in texts :
          /\ parseOpenAiSseData(d).done = FALSE
          /\ parseOpenAiSseData(d).contentDelta = <<>>
          /\ parseOpenAiSseData(d).thinkingDelta = <<>>
    /\ \A d \in texts \cup {DONE} :
       \A e \in {Null, <<"content_block_start">>, <<"content_block_delta">>} :
       \A ctx \in {createAnthropicSseContext, [blockTypes |-> <<<<"thinking">>>>]} :
          /\ parseAnthropicSseEvent(Record(e, d), ctx).out.contentDelta = <<>>
          /\ parseAnthropicSseEvent(Record(e, d), ctx).out.thinkingDelta = <<>>
          /\ parseAnthropicSseEvent(Record(e, d), ctx).ctx = ctx

\* C6 as stated: whenever a decoder is given data that is not valid JSON it
\* returns empty deltas (done = false for OpenAI), the Anthropic context and
\* the error stay as they were, and the handler lets the reader continue.
C6_AsStated ==
    /\ DecodersDegrade(NotJsonTexts)
    /\ \A i \in MalformedHandled : DegradesToNothing(handled[i])

\* C6, amended: whenever a decoder is given data that is not valid JSON and
\* is not the sentinel [DONE] of an OpenAI exchange, it returns empty deltas
\* (done = false for OpenAI), the Anthropic context and the error stay as
\* they were, and the handler lets the reader continue with the next record.
C6_MalformedNeverAborts ==
    /\ DecodersDegrade(NotJsonTexts \ {DONE})
    /\ \A i \in MalformedHandled \ DoneHandled : DegradesToNothing(handled[i])

\* A record that is not JSON was handled, and the record behind it in the
\* same chunk was handled after it and changed the drafts.
C6_Witness ==
    /\ Len(handled) = 2
    /\ 1 \in MalformedHandled \ DoneHandled
    /\ ~handled[2].draftsSame

\* The step is a call of send().
SendStep == \E f \in Forms : Send(f.prompt, f.baseUrl, f.apiKey, f.model)

\* C12: a send() invoked while an exchange is active is rejected, not
\* queued: it issues no proxy request, appends no message, and leaves the
\* drafts, the live usage, the splitter state, the Anthropic context, the
\* abort controller and the position of the active exchange as they were.
C12_SendRejectedWhileStreaming ==
    [][(streaming /\ SendStep) =>
          UNCHANGED <<streaming, requests, sends, messages, assistantDraft,
                      assistantThinkingDraft, streamingUsage, thoughtSplitter,
                      anthropicCtx, abortController, pc, pending, readerState>>]_vars

\* send() was called with every field filled in while the reader of the
\* active exchange was being cancelled after an upstream error event: it
\* cleared the error and the last event name, and nothing else.
C12_Witness ==
    /\ streaming
    /\ pc = "cancelling"
    /\ abortController = "live"
    /\ requests = 1
    /\ handled # <<>>
    /\ handled[Len(handled)].event.event = <<"error">>
    /\ ~retryWithoutUsage
    /\ lastEvent = Null
    /\ error = Null
    /\ Len(messages) = 1

\* C13: a send() with the prompt, the base URL, the API key or the model
\* empty after trimming, while no exchange is active, leaves the orchestrator
\* idle (streaming false, no message appended, no request issued) and
\* surfaces an error message: the message of the base URL, the API key or
\* the model when that is the first field to fail after the prompt.
C13_ValidationSurfacesError ==
    [][\A f \in Forms :
          (/\ ~streaming
           /\ ~Accepted(f.prompt, f.baseUrl, f.apiKey, f.model)
           /\ Send(f.prompt, f.baseUrl, f.apiKey, f.model))
          => /\ UNCHANGED <<streaming, messages, requests, sends, pc, abortController>>
             /\ error' # Null
             /\ Trim(f.prompt) # <<>> =>
                   error' = IF Trim(f.baseUrl) = <<>> THEN ErrBaseUrl
                            ELSE IF Trim(f.apiKey) = <<>> THEN ErrApiKey
                            ELSE ErrModel]_vars

\* Error records an upstream may deliver: JSON with a status and a message,
\* with a message alone, with a status alone, of another shape, and texts
\* that are not JSON.
ErrorRecords ==
    {Record(<<"error">>, JsonText(v)) :
        v \in {Compact([status |-> s, message |-> m]) :
                  s \in {Undefined, JNum(400), JNum(503)},
                  m \in {Undefined, JStr(<<>>), JStr(<<"overloaded">>),
                         JStr(<<"unknown parameter: ", "stream_options">>)}}
              \cup {JNull, JStr(<<"boom">>), JNum(1)}}
    \cup {Record(<<"error">>, d) : d \in NotJsonTexts \cup {PlainText(<<"boom">>)}}

\* The usage retry applies to the error record: the exchange is an OpenAI
\* one that asked for usage and has not retried, and the upstream answered
\* 400 with a message that names the option.
RetryApplies(event) ==
    /\ provider = "openai"
    /\ includeUsage
    /\ ~didRetryWithoutUsage
    /\ ~ParseThrows(event.data)
    /\ Get(JsonParse(event.data), "status") = JNum(400)
    /\ IsString(Get(JsonParse(event.data), "message"))
    /\ \E i \in 1..Len(Get(JsonParse(event.data), "message").s) :
          Get(JsonParse(event.data), "message").s[i] \in {"stream_options", "include_usage"}

\* What C14 says the user-visible error is after the error record: the
\* payload's message, prefixed with the HTTP status when the payload has
\* one; the raw data when the data is not JSON or has no message.
SurfacedError(event) ==
    IF ParseThrows(event.data) THEN RawText(event.data)
    ELSE IF ~Truthy(Get(JsonParse(event.data), "message")) THEN RawText(event.data)
    ELSE IF Truthy(Get(JsonParse(event.data), "status"))
    THEN <<"upstream error (HTTP ", ToString(Get(JsonParse(event.data), "status").n), "): ">>
             \o Get(JsonParse(event.data), "message").s
    ELSE Get(JsonParse(event.data), "message").s

\* C14: when the handler is given a record with event 'error' and no usage
\* retry applies, the user-visible error becomes the payload's message,
\* prefixed with the HTTP status when the payload has one, or the raw data
\* when the data is not JSON or has no message; the handler returns false,
\* the reader is cancelled, the record is not decoded, the rest of the chunk
\* is dropped and the drafts stay as they were; and once the reader is
\* being cancelled no record is read or handled before the exchange ends.
C14_UpstreamErrorEndsExchange ==
    /\ \A e \in ErrorRecords :
          UpstreamErrorText(parseProxyErrorEvent(e)) = SurfacedError(e)
    /\ [][/\ (/\ pc = "handling"
              /\ Head(pending).event = <<"error">>
              /\ ~RetryApplies(Head(pending)))
             => /\ error' = SurfacedError(Head(pending))
                /\ pc' = "cancelling"
                /\ readerState' = "cancelled"
                /\ pending' = <<>>
                /\ handled' = Append(handled, handled'[Len(handled')])
                /\ ~(handled'[Len(handled')].keepGoing)
                /\ ~(handled'[Len(handled')].decoded)
                /\ UNCHANGED <<assistantDraft, assistantThinkingDraft, streamingUsage,
                               thoughtSplitter, anthropicCtx, messages, retryWithoutUsage>>
          /\ (pc = "cancelling" /\ ~retryWithoutUsage)
             => /\ pc' \in {"cancelling", "idle"}
                /\ UNCHANGED <<handled, delivered, pending>>]_vars

\* An error record with a status and a message was handled in an Anthropic
\* exchange while another record of the same chunk was waiting behind it:
\* the error shows the status, and the record behind was dropped.
C14_Witness ==
    /\ pc = "cancelling"
    /\ provider = "anthropic"
    /\ Len(handled) = 1
    /\ handled[1].event.event = <<"error">>
    /\ unhandled = 1
    /\ error = <<"upstream error (HTTP ", "400", "): ", "unknown parameter: ", "stream_options">>

\* The step ends an exchange: send() returns.
ExchangeEnds == pc # "idle" /\ pc' = "idle"

\* The content and the thinking an exchange has when it ends: the drafts,
\* each with the splitter's residue behind it when the residue belongs to
\* it, trimmed.
FinalContent ==
    Trim(assistantDraft \o (IF thoughtSplitter.inThinking THEN <<>> ELSE thoughtSplitter.buffer))

FinalThinking ==
    Trim(assistantThinkingDraft
            \o (IF thoughtSplitter.inThinking THEN thoughtSplitter.buffer ELSE <<>>))

\* C15: however an accepted exchange ends, the splitter residue is flushed
\* into the drafts and then exactly one assistant message is appended, with
\* the trimmed content, the trimmed thinking if non-empty and the merged
\* usage if any, when the trimmed content or the trimmed thinking is
\* non-empty, and none otherwise; afterwards both drafts and the splitter
\* buffer are empty, the live usage is null and streaming is false.
C15_Finalisation ==
    [][ExchangeEnds =>
          /\ messages' =
                IF FinalContent # <<>> \/ FinalThinking # <<>>
                THEN messages \o
                       <<[role     |-> "assistant",
                          content  |-> FinalContent,
                          thinking |-> IF FinalThinking # <<>> THEN JStr(FinalThinking)
                                       ELSE Undefined,
                          usage    |-> IF streamingUsage = JNull THEN Undefined
                                       ELSE streamingUsage]>>
                ELSE messages
          /\ assistantDraft' = <<>>
          /\ assistantThinkingDraft' = <<>>
          /\ thoughtSplitter'.buffer = <<>>
          /\ streamingUsage' = JNull
          /\ streaming' = FALSE]_vars

\* An exchange whose only chunk carried a blank and then the first
\* character of a tag ended normally: the character held back by the
\* splitter was flushed and the blank before it trimmed away.
C15_Witness ==
    /\ pc = "idle"
    /\ error = Null
    /\ Len(handled) = 2
    /\ handled[1].out.contentDelta = <<" ">>
    /\ handled[2].out.contentDelta = <<"<">>
    /\ Len(messages) = 2
    /\ messages[2].role = "assistant"
    /\ messages[2].content = <<"<">>

\* C16: once the abort signal has fired while send() awaits the proxy
\* response or a read of the stream, no further record is read or handled
\* and the exchange ends with the error set to the stopped status: not with
\* the message of the exception, and not with no error.
C16_AbortReportedAsStopped ==
    [][(/\ abortController = "aborted"
        /\ pc \in {"fetching", "streaming"}
        /\ pc' # pc)
       => /\ pc' = "idle"
          /\ error' = Stopped
          /\ streaming' = FALSE
          /\ abortController' = "null"
          /\ UNCHANGED <<handled, delivered, requests>>]_vars

\* The user stopped an exchange while a read was pending, after records had
\* been handled: the reader was released and the error is the stopped status.
C16_Witness ==
    /\ pc = "idle"
    /\ error = Stopped
    /\ readerState = "released"
    /\ handled # <<>>
    /\ delivered >= 1

\* How the step that ends an exchange ends it: the user stopped it, an
\* exception was thrown, or an upstream error event stopped the reader.
EndsStopped == ExchangeEnds /\ error' = Stopped

EndsFailed == ExchangeEnds /\ error' = TransportFailure

EndsOnUpstreamError ==
    /\ ExchangeEnds
    /\ pc = "cancelling"
    /\ handled # <<>>
    /\ handled[Len(handled)].event.event = <<"error">>

\* The ways two texts can be put together keeping the order of each.
RECURSIVE Merges(_, _)
Merges(a, b) ==
    IF a = <<>> THEN {b}
    ELSE IF b = <<>> THEN {a}
    ELSE {<<Head(a)>> \o m : m \in Merges(Tail(a), b)}
         \cup {<<Head(b)>> \o m : m \in Merges(a, Tail(b))}

\* The content deltas of the answer to the latest request as one new
\* splitter sorts them, the text it would still hold included.
Kept == OneShot(received.content)

\* The thinking text of that answer, trimmed: the thinking deltas and the
\* text the splitter sorts as thinking, each in its order of arrival.
KeptThinkings == {Trim(m) : m \in Merges(received.thinking, Kept.thinking)}

\* Some content or thinking text of the answer is there to be kept.
SomeKept == Trim(Kept.content) # <<>> \/ KeptThinkings # {<<>>}

\* One assistant message is appended in this step: its content is the
\* content kept, trimmed, and its thinking the thinking kept.
KeptIsAppended ==
    /\ Len(messages') = Len(messages) + 1
    /\ SubSeq(messages', 1, Len(messages)) = messages
    /\ messages'[Len(messages')].role = "assistant"
    /\ messages'[Len(messages')].content = Trim(Kept.content)
    /\ \E t \in KeptThinkings :
          messages'[Len(messages')].thinking = IF t # <<>> THEN JStr(t) ELSE Undefined

\* C17: when an exchange is stopped by the user, stopped by an upstream
\* error event, or fails with an exception, after content or thinking text
\* was decoded from the answer to its latest request, text still held by
\* the splitter included, then exactly one assistant message is appended
\* whose content and thinking are that text, trimmed, the tags taken out and
\* the text between them counted as thinking.
C17_PartialOutputSurvives ==
    [][((EndsStopped \/ EndsFailed \/ EndsOnUpstreamError) /\ SomeKept)
       => KeptIsAppended]_vars

\* The user stopped an exchange after one character of text and the first
\* character of a tag had arrived: the answer kept is both characters, the
\* second of which the splitter was still holding.
C17_Witness ==
    /\ pc = "idle"
    /\ error = Stopped
    /\ received.content = <<"x", "<">>
    /\ Len(messages) = 2
    /\ messages[2].role = "assistant"
    /\ messages[2].content = <<"x", "<">>

\* The record is an upstream error whose message names the usage option.
CitesUsageOption(event) ==
    /\ event.event = <<"error">>
    /\ ~ParseThrows(event.data)
    /\ IsString(Get(JsonParse(event.data), "message"))
    /\ \E i \in 1..Len(Get(JsonParse(event.data), "message").s) :
          Get(JsonParse(event.data), "message").s[i] \in {"stream_options", "include_usage"}

\* What the retry without usage does when the reader has been cancelled:
\* the option is turned off, the drafts, the live usage and the splitter are
\* cleared, and the same request goes out again without the option.
RetriesWithoutUsage ==
    /\ includeUsage' = FALSE
    /\ assistantDraft' = <<>>
    /\ assistantThinkingDraft' = <<>>
    /\ streamingUsage' = JNull
    /\ thoughtSplitter' = NewSplitter
    /\ requests' = requests + 1
    /\ streamOptions' = FALSE
    /\ pc' = "fetching"
    /\ UNCHANGED <<messages, provider, streaming, abortController, error>>

\* C18: in an exchange whose request carried stream_options.include_usage,
\* when the handler is given an upstream error whose message contains
\* 'stream_options' or 'include_usage', the error is not surfaced and the
\* retry is decided; and once the reader is cancelled the option is turned
\* off, the drafts, the live usage and the splitter state are cleared, and
\* the same request is sent again without the option.
C18_UsageRejectionRetries ==
    [][/\ (pc = "handling" /\ streamOptions /\ CitesUsageOption(Head(pending)))
          => /\ retryWithoutUsage'
             /\ error' = error
             /\ pc' = "cancelling"
       /\ (pc = "cancelling" /\ retryWithoutUsage /\ pc' # pc) => RetriesWithoutUsage]_vars

\* C18 where the code keeps it: the same, when the upstream error carries
\* status 400 and the usage option is still turned on when the error is
\* handled.
C18_RetriesOn400WhileOptionOn ==
    [][/\ (/\ pc = "handling"
           /\ streamOptions
           /\ includeUsage
           /\ CitesUsageOption(Head(pending))
           /\ Get(JsonParse(Head(pending).data), "status") = JNum(400))
          => /\ retryWithoutUsage'
             /\ error' = error
             /\ pc' = "cancelling"
       /\ (pc = "cancelling" /\ retryWithoutUsage /\ pc' # pc) => RetriesWithoutUsage]_vars

\* The user messages of the conversation.
UserMessages == {i \in 1..Len(messages) : messages[i].role = "user"}

\* C19: within one send() at most two proxy requests are issued, and each
\* accepted send appends its user message exactly once; an error event in
\* the second attempt, one that names the usage option included, is
\* surfaced as the error and decides no further retry; and when an exchange
\* that retried ends, the assistant message it appends, if any, is made of
\* the text decoded from the answer to the second request alone.
C19_AtMostOneRetry ==
    /\ [](requests <= 2 /\ Cardinality(UserMessages) = sends)
    /\ [][/\ (pc = "handling" /\ requests = 2 /\ Head(pending).event = <<"error">>)
             => /\ error' = SurfacedError(Head(pending))
                /\ retryWithoutUsage' = FALSE
                /\ pc' = "cancelling"
          /\ (pc = "cancelling" /\ requests = 2 /\ pc' # pc) => pc' = "idle"
          /\ (ExchangeEnds /\ requests = 2)
             => IF SomeKept THEN KeptIsAppended ELSE messages' = messages]_vars

\* The first attempt was rejected for the usage option and retried; the
\* second attempt was rejected with the same error, which was surfaced; the
\* exchange ended with two requests issued and the user message alone.
C19_Witness ==
    /\ pc = "idle"
    /\ provider = "openai"
    /\ requests = 2
    /\ didRetryWithoutUsage
    /\ error = <<"upstream error (HTTP ", "400", "): ", "unknown parameter: ", "stream_options">>
    /\ Len(messages) = 1
    /\ messages[1].role = "user"

\* C20: an accepted send, whose pending fetch, reads and cancel each settle
\* and whose response body is finite, reaches streaming = false with the
\* abort controller released, whatever the path; while no exchange is
\* active the controller is released and send() is at rest, and a send with
\* every field filled in is then accepted.
C20_ReturnsToIdle ==
    /\ [](~streaming =>
            /\ pc = "idle"
            /\ abortController = "null"
            /\ \A f \in Forms :
                  (Trim(f.prompt) # <<>> /\ Trim(f.baseUrl) # <<>>
                      /\ Trim(f.apiKey) # <<>> /\ Trim(f.model) # <<>>)
                  => /\ ~SilentReturn(f.prompt)
                     /\ Accepted(f.prompt, f.baseUrl, f.apiKey, f.model))
    /\ []<>(~streaming /\ abortController = "null" /\ pc = "idle")

\* A second send was accepted after the exchange of the first had ended
\* with an assistant message: its exchange is in flight.
C20_Witness ==
    /\ sends = 2 /\ streaming
    /\ Len(messages) = 3 /\ messages[2].role = "assistant"

\* send() went past its guards in this step.
AcceptedSend == sends' = sends + 1

\* C21: every accepted send leaves the splitter with an empty buffer and
\* inThinking false and the Anthropic context with no declared block,
\* whatever they held before; and while the exchange is in flight the
\* splitter and the content draft are what a new splitter makes of the
\* content deltas of this exchange alone.
C21_FreshParsingState ==
    /\ [][AcceptedSend =>
            /\ thoughtSplitter'.buffer = <<>>
            /\ thoughtSplitter'.inThinking = FALSE
            /\ DOMAIN anthropicCtx'.blockTypes = {}]_vars
    /\ [](streaming =>
            \E r \in {push(NewSplitter, received.content)} :
                /\ thoughtSplitter = [buffer |-> r.buffer, inThinking |-> r.inThinking]
                /\ assistantDraft = r.out.contentDelta)

\* A second send was accepted after an exchange whose answer was thinking
\* text alone: it had ended inside an unclosed <think> or with a declared
\* thinking block, and the second exchange starts from a new splitter and an
\* empty context.
C21_Witness ==
    /\ sends = 2 /\ pc = "fetching"
    /\ Len(messages) = 3
    /\ messages[2].role = "assistant"
    /\ messages[2].content = <<>>
    /\ messages[2].thinking = JStr(<<"x">>)
    /\ thoughtSplitter = NewSplitter
    /\ anthropicCtx = createAnthropicSseContext

\* The handler was run in this step and returned false.
HandlerSaidStop ==
    /\ Len(handled') = Len(handled) + 1
    /\ ~handled'[Len(handled')].keepGoing

\* C29: when the handler returns false for a record, streamSse cancels the
\* reader at once and drops the records of the chunk behind that record;
\* while the cancel is pending and after it the handler is not run for
\* that response; and whenever streamSse has returned (the handler said
\* stop, the stream ended, the signal had fired, a read failed) the lock of
\* the reader is released.
C29_StopSentinel ==
    /\ [][HandlerSaidStop =>
            /\ pc' = "cancelling"
            /\ readerState' = "cancelled"
            /\ pending' = <<>>
            /\ unhandled' = Len(pending) - 1]_vars
    /\ [][pc = "cancelling" =>
            /\ handled' = handled
            /\ pc' \in {"cancelling", "fetching", "idle"}
            /\ pc' # "cancelling" => readerState' = "released"]_vars
    /\ [](readerState = "cancelled" <=> pc = "cancelling")
    /\ [](readerState = "locked" <=> pc \in {"streaming", "handling"})

\* The handler returned false for the first of two records of a chunk;
\* streamSse has returned, the second record was never handled and the
\* lock is released.
C29_Witness ==
    /\ pc = "idle"
    /\ readerState = "released"
    /\ Len(handled) = 1
    /\ ~handled[1].keepGoing
    /\ unhandled = 1

-----------------------------------------------------------------------------
(* The edge proxy: functions/lib/url.js and functions/index.js             *)
(*                                                                         *)
(* The text of a URL is a sequence of tokens: the scheme, "://", then the  *)
(* delimiters "@", ".", ":", "/", "?", "#" and one token for each word     *)
(* between them (a user name, a host label, a port, a path segment, a      *)
(* query, a fragment).  "[::1]" is one word: an IPv6 literal.              *)

\* The words that consist of one to three decimal digits.
DigitWords == {"0", "1", "127"}

\* The words that consist of hexadecimal digits, colons and brackets and
\* hold a colon.
HexColonWords == {"[::1]"}

\* The port a scheme implies.
DefaultPort(scheme) == IF scheme = "https" THEN "443" ELSE "80"

\* The host parser of new URL(): the domain in lower case; a host that is
\* one number is an IPv4 address and is written in dotted form.
ParseHost(host) ==
    IF host = <<"2130706433">> THEN <<"127", ".", "0", ".", "0", ".", "1">>
    ELSE ToLowerCase(host)

UrlFailure == [ok |-> FALSE]

\* The text before the first occurrence of sep and the text after it.
SplitAtIndex(s, i) ==
    IF i = -1 THEN [found |-> FALSE, before |-> s, after |-> <<>>]
    ELSE [found |-> TRUE, before |-> Slice(s, 0, i), after |-> SliceFrom(s, i + 1)]

SplitAt(s, sep) == SplitAtIndex(s, IndexOf(s, sep))

\* The URL object made of the parts: h is the text split at '#', q what is
\* before the fragment split at '?', p what is before the query split at
\* '/', a the authority split at '@' and c the host and port split at ':'.
UrlParts(scheme, h, q, p, a, c) ==
    IF c.before = <<>> THEN UrlFailure
    ELSE [ok |-> TRUE,
          protocol |-> <<scheme, ":">>,
          username |-> IF a.found THEN a.before ELSE <<>>,
          password |-> <<>>,
          hostname |-> ParseHost(c.before),
          port |-> IF c.after = <<DefaultPort(scheme)>> THEN <<>> ELSE c.after,
          pathname |-> <<"/">> \o p.after,
          search |-> IF q.after = <<>> THEN <<>> ELSE <<"?">> \o q.after,
          hash |-> IF h.after = <<>> THEN <<>> ELSE <<"#">> \o h.after]

\* new URL(text) for the texts of the model: the parts of the URL as the
\* properties of the URL object give them, or a failure (a TypeError).
\* An empty user name, query or fragment reads as '', as an absent one;
\* the port reads as '' when it is the port the scheme implies.
ParseUrl(text) ==
    IF ~(Len(text) >= 3 /\ text[1] \in {"https", "http"} /\ text[2] = "://")
    THEN UrlFailure
    ELSE
    LET h == SplitAt(SliceFrom(text, 2), <<"#">>)
        q == SplitAt(h.before, <<"?">>)
        p == SplitAt(q.before, <<"/">>)
        a == SplitAt(p.before, <<"@">>)
        c == SplitAt(IF a.found THEN a.after ELSE a.before, <<":">>)
    IN  UrlParts(text[1], h, q, p, a, c)

\* String.prototype.endsWith
EndsWith(s, suffix) ==
    /\ Len(suffix) <= Len(s)
    /\ SubSeq(s, Len(s) - Len(suffix) + 1, Len(s)) = suffix

\* s.replace(/\/+$/, '')
RECURSIVE StripTrailingSlashes(_)
StripTrailingSlashes(s) ==
    IF s # <<>> /\ s[Len(s)] = "/" THEN StripTrailingSlashes(SubSeq(s, 1, Len(s) - 1))
    ELSE s

\* /^\d{1,3}(\.\d{1,3}){3}$/.test(hostname)
IsDottedQuad(hostname) ==
    /\ Len(hostname) = 7
    /\ \A i \in 1..7 : IF i % 2 = 1 THEN hostname[i] \in DigitWords ELSE hostname[i] = "."

\* /^\[?[0-9a-fA-F:]+\]?$/.test(hostname) && hostname.includes(':')
IsHexColon(hostname) == Len(hostname) = 1 /\ hostname[1] \in HexColonWords

isProbablyIp(hostname) == IsDottedQuad(hostname) \/ IsHexColon(hostname)

\* The tests of isBlockedHostname on the host name in lower case.
IsLocalName(h) ==
    \/ h = <<"localhost">>
    \/ EndsWith(h, <<".", "localhost">>)
    \/ EndsWith(h, <<".", "local">>)
    \/ EndsWith(h, <<".", "lan">>)
    \/ EndsWith(h, <<".", "internal">>)

isBlockedHostname(hostname) == IsLocalName(ToLowerCase(hostname))

\* A thrown Error with its message.
Thrown(message) == [ok |-> FALSE, message |-> message]

\* The checks of validateBaseUrl on the path of the URL, without its
\* trailing slashes, and on the host name.
CheckPathAndHost(url, basePath) ==
    IF basePath # <<>> /\ basePath # <<"/">> /\ ~EndsWith(basePath, <<"/", "v1">>)
    THEN Thrown("baseUrl path is neither empty nor ends with /v1")
    ELSE IF isProbablyIp(url.hostname) THEN Thrown("baseUrl is an IP address")
    ELSE IF isBlockedHostname(url.hostname) THEN Thrown("baseUrl is a local name")
    ELSE url

\* The checks of validateBaseUrl on the URL object.
CheckUrl(url) ==
    IF ~url.ok THEN Thrown("baseUrl is not a URL")
    ELSE IF url.username # <<>> \/ url.password # <<>>
    THEN Thrown("baseUrl has a user name or password")
    ELSE IF url.protocol # <<"https", ":">> THEN Thrown("baseUrl is not https")
    ELSE IF url.port # <<>> THEN Thrown("baseUrl has a port")
    ELSE IF url.search # <<>> \/ url.hash # <<>> THEN Thrown("baseUrl has a query or hash")
    ELSE CheckPathAndHost(url, StripTrailingSlashes(url.pathname))

\* validateBaseUrl(baseUrl): the URL object it returns, or the Error it throws.
validateBaseUrl(baseUrl) ==
    IF ~IsString(baseUrl) \/ Trim(baseUrl.s) = <<>> THEN Thrown("baseUrl is empty")
    ELSE CheckUrl(ParseUrl(Trim(baseUrl.s)))

\* url.origin
Origin(url) ==
    <<url.protocol[1], "://">> \o url.hostname
        \o (IF url.port = <<>> THEN <<>> ELSE <<":">> \o url.port)

\* The URL buildUpstreamUrl makes of the origin and the API prefix.
UpstreamHref(prov, origin, apiPrefix) ==
    IF prov = JStr(<<"openai">>)
    THEN [ok |-> TRUE, href |-> origin \o apiPrefix \o <<"/", "chat", "/", "completions">>]
    ELSE IF prov = JStr(<<"anthropic">>)
    THEN [ok |-> TRUE, href |-> origin \o apiPrefix \o <<"/", "messages">>]
    ELSE Thrown("provider is not supported")

\* const apiPrefix = basePath.endsWith('/v1') ? basePath : `${basePath}/v1`
ApiPrefix(basePath) ==
    IF EndsWith(basePath, <<"/", "v1">>) THEN basePath ELSE basePath \o <<"/", "v1">>

\* buildUpstreamUrl after validateBaseUrl returned or threw.
UpstreamFrom(prov, base) ==
    IF ~base.ok THEN base
    ELSE UpstreamHref(prov, Origin(base), ApiPrefix(StripTrailingSlashes(base.pathname)))

\* buildUpstreamUrl({ provider, baseUrl }): the text of the URL it returns
\* (new URL(path, origin).toString()), or the Error it throws.
buildUpstreamUrl(prov, baseUrl) == UpstreamFrom(prov, validateBaseUrl(baseUrl))

\* requireString(obj, key): the trimmed string, or the Error it throws.
RequiredString(value) ==
    IF ~IsString(value) \/ Trim(value.s) = <<>> THEN Thrown("a string is required")
    ELSE [ok |-> TRUE, value |-> JStr(Trim(value.s))]

requireString(obj, key) == RequiredString(Get(obj, key))

\* requireObject(obj, key)
RequiredObject(value) ==
    IF value.t \notin {"object", "array"} THEN Thrown("an object is required")
    ELSE [ok |-> TRUE, value |-> value]

requireObject(obj, key) == RequiredObject(Get(obj, key))

\* sanitizeProvider(raw)
sanitizeProvider(raw) ==
    IF raw = JStr(<<"openai">>) \/ raw = JStr(<<"anthropic">>) THEN [ok |-> TRUE, value |-> raw]
    ELSE Thrown("provider must be openai or anthropic")

JBool(b) == [t |-> "boolean", b |-> b]

\* A response of the proxy: its status and the kind of its body.
Response(status, body) == [status |-> status, body |-> body]

NoResponse == Response(0, "none")

\* The response once the upstream URL was built or refused.
StreamResponse(upstreamUrl, apiKey, upstreamRequest) ==
    IF ~upstreamUrl.ok THEN [response |-> Response(400, "json error"), calls |-> <<>>]
    ELSE [response |-> Response(200, "event stream"),
          calls |-> <<[url |-> upstreamUrl.href,
                       key |-> apiKey.value.s,
                       body |-> With(upstreamRequest.value, "stream", JBool(TRUE))]>>]

\* The response to a chat request whose fields were read, and the calls
\* of fetchFn made by then.
ChatResponse(prov, baseUrl, apiKey, upstreamRequest) ==
    IF ~(prov.ok /\ baseUrl.ok /\ apiKey.ok /\ upstreamRequest.ok)
    THEN [response |-> Response(400, "json error"), calls |-> <<>>]
    ELSE StreamResponse(buildUpstreamUrl(prov.value, baseUrl.value), apiKey, upstreamRequest)

\* The response to a chat request whose body was parsed.
ChatOf(payload) ==
    ChatResponse(sanitizeProvider(Get(payload, "provider")),
                 requireString(payload, "baseUrl"),
                 requireString(payload, "apiKey"),
                 requireObject(payload, "request"))

\* handleRequest up to the response it returns: the response and the
\* calls of fetchFn made by then.  The stream's start() runs while the
\* ReadableStream is constructed and calls fetchFn before its first await.
handleRequest(request) ==
    IF request.pathname = <<"/", "api", "/", "health">>
    THEN [response |-> Response(200, "json"), calls |-> <<>>]
    ELSE IF ~StartsWith(request.pathname, <<"/", "api", "/">>)
    THEN [response |-> Response(404, "text"), calls |-> <<>>]
    ELSE IF request.method = "OPTIONS" THEN [response |-> Response(204, "null"), calls |-> <<>>]
    ELSE IF request.method # "POST" THEN [response |-> Response(405, "text"), calls |-> <<>>]
    ELSE IF request.pathname # <<"/", "api", "/", "chat">>
    THEN [response |-> Response(404, "text"), calls |-> <<>>]
    ELSE IF ParseThrows(request.body)
    THEN [response |-> Response(400, "json error"), calls |-> <<>>]
    ELSE ChatOf(JsonParse(request.body))

\* The parts of a base URL as the user wrote them, and the text they make.
UrlText(w) ==
    <<w.scheme, "://">> \o w.userinfo \o w.host \o w.port \o w.path \o w.query \o w.fragment

ExampleHost == <<"api", ".", "example", ".", "com">>

WrittenHosts ==
    { ExampleHost,
      <<"localhost">>, <<"LOCALHOST">>, <<"localhost", ".">>, <<"dev", ".", "localhost">>,
      <<"printer", ".", "local">>, <<"nas", ".", "lan">>,
      <<"svc", ".", "internal">>, <<"svc", ".", "internal", ".">>,
      <<"127", ".", "0", ".", "0", ".", "1">>, <<"2130706433">>, <<"[::1]">> }

WrittenPaths ==
    { <<>>, <<"/">>, <<"/", "v1">>, <<"/", "v1", "/">>, <<"/", "api", "/", "v1">>,
      <<"/", "v1", "/", "chat">> }

WrittenUrls ==
    [scheme : {"https", "http"},
     userinfo : {<<>>, <<"@">>, <<"u", "@">>},
     host : WrittenHosts,
     port : {<<>>, <<":", "443">>, <<":", "8443">>},
     path : WrittenPaths,
     query : {<<>>, <<"?">>, <<"?", "a=1">>},
     fragment : {<<>>, <<"#">>, <<"#", "top">>}]

PlainUrl ==
    [scheme |-> "https", userinfo |-> <<>>, host |-> ExampleHost, port |-> <<>>,
     path |-> <<>>, query |-> <<>>, fragment |-> <<>>]

\* The body of a chat request.
ChatPayload(prov, baseUrl, apiKey, req) ==
    Compact([provider |-> prov, baseUrl |-> baseUrl, apiKey |-> apiKey, request |-> req])

\* A request to the proxy; written is the base URL in parts when the body
\* carries one, for the properties to read.
ProxyRequest(method, pathname, body, written) ==
    [method |-> method, pathname |-> pathname, body |-> body, written |-> written]

NotWritten == [scheme |-> "none"]

ChatPath == <<"/", "api", "/", "chat">>

\* Chat requests that are well formed but for the base URL.
UrlRequests ==
    { ProxyRequest("POST", ChatPath,
          JsonText(ChatPayload(JStr(<<"openai">>), JStr(UrlText(w)), JStr(<<"sk-1">>), EmptyObj)), w)
      : w \in WrittenUrls }

\* Requests that differ in the method, the path and the other fields.
OtherRequests ==
    { ProxyRequest(m, p, JsonText(ChatPayload(prov, b, k, r)), NotWritten)
      : m \in {"POST", "GET", "OPTIONS"},
        p \in {ChatPath, <<"/", "api", "/", "health">>, <<"/", "api", "/", "x">>, <<"/", "index">>},
        prov \in {JStr(<<"openai">>), JStr(<<"anthropic">>), JStr(<<"other">>)},
        b \in {Undefined, JNum(1), JStr(<<" ">>), JStr(<<"not a url">>)},
        k \in {JStr(<<"sk-1">>), JStr(<<>>)},
        r \in {EmptyObj, Undefined} }
    \cup
    { ProxyRequest("POST", ChatPath, JsonText(ChatPayload(prov, JStr(<<" ">> \o UrlText(PlainUrl)), k, r)), PlainUrl)
      : prov \in {JStr(<<"openai">>), JStr(<<"anthropic">>), JStr(<<"other">>)},
        k \in {JStr(<<"sk-1">>), JStr(<<>>), JNull},
        r \in {EmptyObj, JNull, JStr(<<"x">>)} }
    \cup
    { ProxyRequest("POST", ChatPath, PlainText(<<"{not json">>), NotWritten) }

ProxyRequests == UrlRequests \cup OtherRequests

ProxyInit ==
    /\ proxyRequest \in ProxyRequests
    /\ proxyResponse = NoResponse
    /\ upstreamCalls = <<>>

ProxyIdle ==
    /\ proxyRequest = ProxyRequest("GET", <<"/", "index">>, EmptyText, NotWritten)
    /\ proxyResponse = NoResponse
    /\ upstreamCalls = <<>>

\* The proxy answers the request.
HandleRequest ==
    /\ proxyResponse = NoResponse
    /\ \E r \in {handleRequest(proxyRequest)} :
        /\ proxyResponse' = r.response
        /\ upstreamCalls' = upstreamCalls \o r.calls
    /\ UNCHANGED proxyRequest
    /\ ProxyFrame

ProxyNext == HandleRequest

\* ---- C25: the proxy contacts an upstream only for a validated base URL

\* A DNS name written with its root dot is the same name without it.
Rootless(host) ==
    IF host # <<>> /\ host[Len(host)] = "." THEN SubSeq(host, 1, Len(host) - 1) ELSE host

\* The host names this machine or a private zone.
LocalName(host) ==
    LET h == ToLowerCase(Rootless(host))
    IN  \/ h = <<"localhost">>
        \/ \E zone \in {"localhost", "local", "lan", "internal"} : EndsWith(h, <<".", zone>>)

\* The host is an IP address: dotted, one number, or IPv6 in brackets.
IpLiteral(host) ==
    host \in {<<"127", ".", "0", ".", "0", ".", "1">>, <<"2130706433">>, <<"[::1]">>}

\* The base path is empty or ends with /v1.
BasePathOk(path) ==
    LET basePath == StripTrailingSlashes(path)
    IN  basePath = <<>> \/ EndsWith(basePath, <<"/", "v1">>)

\* The written base URL meets every condition: https, no credentials, no
\* explicit port, no query, no hash, no IP literal, no local name, base
\* path empty or ending with /v1.  An "@", "?" or "#" with nothing beside
\* it counts as no credentials, no query, no hash.
MeetsConditions(w) ==
    /\ w.scheme = "https"
    /\ w.userinfo \in {<<>>, <<"@">>}
    /\ w.port = <<>>
    /\ w.query \in {<<>>, <<"?">>}
    /\ w.fragment \in {<<>>, <<"#">>}
    /\ ~IpLiteral(w.host)
    /\ ~LocalName(w.host)
    /\ BasePathOk(w.path)

\* The host of the URL given to fetchFn: the tokens between "://" and the path.
UpstreamHost(url) == Slice(url, 2, IndexOf(url, <<"/">>))

\* The URL given to fetchFn is https and has no credentials, port, query
\* or hash, and its host is no IP literal and no local name.
CleanUpstream(url) ==
    /\ url[1] = "https"
    /\ \A i \in 1..Len(url) : url[i] \notin {"@", ":", "?", "#"}
    /\ ~IpLiteral(UpstreamHost(url))
    /\ ~LocalName(UpstreamHost(url))

UpstreamOnlyIfValidated ==
    /\ \A i \in 1..Len(upstreamCalls) :
        /\ CleanUpstream(upstreamCalls[i].url)
        /\ proxyRequest.written # NotWritten
        /\ MeetsConditions(proxyRequest.written)
    /\ (proxyResponse # NoResponse /\ proxyRequest.written # NotWritten
            /\ ~MeetsConditions(proxyRequest.written))
        => (proxyResponse = Response(400, "json error") /\ upstreamCalls = <<>>)

\* C25: handleRequest calls fetchFn only with a URL that is https, has no
\* credentials, port, query or hash and whose host is neither an IP
\* literal nor a localhost, .local, .lan or .internal name, for a base URL
\* whose path is empty or ends with /v1; a chat request whose base URL
\* breaks one of the conditions is answered 400 with a JSON error and no
\* call of fetchFn.
C25_ValidatedUpstreamOnly == UpstreamOnlyIfValidated

\* C25 for base URLs written without the port 443 and without a root dot.
C25_WithoutDefaultPortAndRootDot ==
    (/\ proxyRequest.written # NotWritten
     /\ proxyRequest.written.port # <<":", "443">>
     /\ Rootless(proxyRequest.written.host) = proxyRequest.written.host)
        => UpstreamOnlyIfValidated

\* A base URL with a path ending in /v1 was accepted and fetchFn called
\* with the chat completions URL under it.
C25_AcceptedWitness ==
    /\ proxyResponse = Response(200, "event stream")
    /\ Len(upstreamCalls) = 1
    /\ upstreamCalls[1].url =
        <<"https", "://">> \o ExampleHost
            \o <<"/", "api", "/", "v1", "/", "chat", "/", "completions">>

\* A base URL whose host is written with the root dot of localhost was
\* accepted.
C25_RootDotWitness ==
    /\ proxyRequest.written # NotWritten
    /\ proxyRequest.written.host = <<"localhost", ".">>
    /\ Len(upstreamCalls) = 1

-----------------------------------------------------------------------------
(* The conversation store: src/lib/conversations.js                        *)
(*                                                                         *)
(* localStorage is a function from the keys that have an item to the text  *)
(* of the item.  A text is the serialisation of a JSON value or a text     *)
(* that is not JSON, as for the SSE data fields.                           *)

\* Boolean(v), with the booleans.
ToBoolean(v) == IF v.t = "boolean" THEN v.b ELSE Truthy(v)

\* typeof v === 'object', null excepted
IsObjectLike(v) == v.t \in {"object", "array"}

\* What getItem returns for a key without an item: null.
NoItem == [kind |-> "null", text |-> <<>>, value |-> Undefined]

\* !raw for what getItem returns
Missing(raw) == raw.kind = "null" \/ (raw.kind = "plain" /\ raw.text = <<>>)

getItem(store, key) == IF key \in DOMAIN store THEN store[key] ELSE NoItem

setItem(store, key, text) ==
    [k \in (DOMAIN store) \cup {key} |-> IF k = key THEN text ELSE store[k]]

removeItem(store, key) == [k \in (DOMAIN store) \ {key} |-> store[k]]

\* JSON.stringify(v): properties whose value is undefined are left out.
RECURSIVE Stringified(_)
Stringified(v) ==
    CASE v.t = "object" ->
            JObj([k \in {x \in DOMAIN v.f : v.f[x] # Undefined} |-> Stringified(v.f[k])])
      [] v.t = "array" ->
            JArr([i \in 1..Len(v.a) |->
                    IF v.a[i] = Undefined THEN JNull ELSE Stringified(v.a[i])])
      [] OTHER -> v

JsonStringify(v) == JsonText(Stringified(v))

CONVERSATIONS_INDEX_KEY == <<"edgeai-playground:conversations:v1">>

CONVERSATION_DETAIL_KEY_PREFIX == <<"edgeai-playground:conversation:v1:">>

\* The default title (a three-character text in the source).
DEFAULT_CONVERSATION_TITLE == <<"N", "e", "w">>

\* Date.now() of the run.
Now == 5

\* Math.floor: the numbers of the model are integers.
Floor(n) == n

safeString(v, fallback) == IF IsString(v) THEN v.s ELSE fallback

\* safeNumber(v, fallback): Number(v) is finite for null, booleans and the
\* empty string, NaN for undefined, objects and the other strings of the model.
safeNumber(v, fallback) ==
    CASE v.t = "number" -> v.n
      [] v.t = "null" -> 0
      [] v.t = "boolean" -> IF v.b THEN 1 ELSE 0
      [] v.t = "string" /\ Trim(v.s) = <<>> -> 0
      [] v.t = "array" /\ v.a = <<>> -> 0
      [] OTHER -> fallback

safeBoolean(v, fallback) == IF v.t = "boolean" THEN v.b ELSE fallback

clamp(n, min, max) == Min(max, Max(min, n))

\* replaceAll('\r', '').replaceAll('\t', ' ').replace(/\s+/g, ' ') on the rest of a text
RECURSIVE CollapseSpaces(_)
CollapseSpaces(s) ==
    IF s = <<>> THEN <<>>
    ELSE IF Head(s) = "\r" THEN CollapseSpaces(Tail(s))
    ELSE IF IsSpace(Head(s))
         THEN (IF Len(s) >= 2 /\ (IsSpace(s[2]))
               THEN CollapseSpaces(<<" ">> \o SubSeq(s, 3, Len(s)))
               ELSE <<" ">> \o CollapseSpaces(Tail(s)))
         ELSE <<Head(s)>> \o CollapseSpaces(Tail(s))

normalizeWhitespace(s) == Trim(CollapseSpaces(s))

\* truncate(s, maxLen); "U2026" is the ellipsis.
truncate(s, maxLen) ==
    IF Len(s) <= maxLen THEN s
    ELSE TrimEnd(Slice(s, 0, Max(0, maxLen - 1))) \o <<"U2026">>

\* createId(): the n-th identifier the run generates.
createId(n) == <<"id-" \o ToString(n)>>

normalizeConversationTitle(raw) ==
    LET t == normalizeWhitespace(raw)
    IN  IF t # <<>> THEN truncate(t, 64) ELSE DEFAULT_CONVERSATION_TITLE

safeJsonParse(raw) == IF ParseThrows(raw) THEN JNull ELSE JsonParse(raw)

normalizeProvider(v) ==
    IF v = JStr(<<"openai">>) \/ v = JStr(<<"anthropic">>) THEN v ELSE JNull

normalizeRole(v) ==
    IF v = JStr(<<"user">>) \/ v = JStr(<<"assistant">>) THEN v ELSE JNull

\* normalizeRunSnapshot(raw): the seven fields of a run snapshot, or undefined.
normalizeRunSnapshot(raw) ==
    IF ~IsObjectLike(raw) THEN Undefined
    ELSE IF normalizeProvider(Get(raw, "provider")) = JNull THEN Undefined
    ELSE
    LET version == normalizeWhitespace(safeString(Get(raw, "anthropicVersion"), <<"2023-06-01">>))
    IN  JObj([provider |-> normalizeProvider(Get(raw, "provider")),
              baseUrl |-> JStr(normalizeWhitespace(safeString(Get(raw, "baseUrl"), <<>>))),
              model |-> JStr(normalizeWhitespace(safeString(Get(raw, "model"), <<>>))),
              systemPrompt |-> JStr(safeString(Get(raw, "systemPrompt"), <<>>)),
              \* the fallback is 0.7 in the source; the numbers of the model are integers
              temperature |-> JNum(clamp(safeNumber(Get(raw, "temperature"), 1), 0, 2)),
              maxTokens |-> JNum(Max(1, Floor(safeNumber(Get(raw, "maxTokens"), 1024)))),
              anthropicVersion |-> JStr(IF version # <<>> THEN version ELSE <<"2023-06-01">>)])

\* The message normalizeMessages makes of an item it accepts.  An item
\* without an id gets a generated one.
NormalMessage(m) ==
    LET id == Get(m, "id")
    IN  JObj([id |-> IF IsString(id) /\ Trim(id.s) # <<>> THEN id ELSE JStr(<<"id-m">>),
              role |-> normalizeRole(Get(m, "role")),
              content |-> Get(m, "content"),
              thinking |-> IF IsString(Get(m, "thinking")) THEN Get(m, "thinking") ELSE Undefined,
              at |-> JNum(Floor(safeNumber(Get(m, "at"), Now)))])

\* The item is one normalizeMessages accepts (the size limits are far
\* above the texts of the model).
MessageOk(m) ==
    /\ IsObjectLike(m)
    /\ normalizeRole(Get(m, "role")) # JNull
    /\ IsString(Get(m, "content"))

\* normalizeMessages(raw)
normalizeMessages(raw) ==
    IF raw.t # "array" THEN [ok |-> FALSE]
    ELSE IF \E i \in 1..Len(raw.a) : ~MessageOk(raw.a[i]) THEN [ok |-> FALSE]
    ELSE [ok |-> TRUE, messages |-> JArr([i \in 1..Len(raw.a) |-> NormalMessage(raw.a[i])])]

\* The list item readConversationsIndex makes of a stored item with an id.
ListItem(it) ==
    LET createdAt == Floor(safeNumber(Get(it, "createdAt"), Now))
    IN  JObj([id |-> JStr(Trim(safeString(Get(it, "id"), <<>>))),
              title |-> JStr(normalizeConversationTitle(
                            safeString(Get(it, "title"), DEFAULT_CONVERSATION_TITLE))),
              createdAt |-> JNum(createdAt),
              updatedAt |-> JNum(Floor(safeNumber(Get(it, "updatedAt"), createdAt))),
              lastSnippet |-> JStr(safeString(Get(it, "lastSnippet"), <<>>)),
              pinned |-> JBool(safeBoolean(Get(it, "pinned"), FALSE))])

\* The loop of readConversationsIndex over parsed.items.
RECURSIVE ListItems(_)
ListItems(raw) ==
    IF raw = <<>> THEN <<>>
    ELSE IF ~IsObjectLike(Head(raw)) \/ Trim(safeString(Get(Head(raw), "id"), <<>>)) = <<>>
    THEN ListItems(Tail(raw))
    ELSE <<ListItem(Head(raw))>> \o ListItems(Tail(raw))

\* readConversationsIndex(storage): the index, or null.
readConversationsIndex(store) ==
    LET raw == getItem(store, CONVERSATIONS_INDEX_KEY)
        parsed == safeJsonParse(raw)
        cur == Get(parsed, "currentId")
    IN  IF Missing(raw) THEN JNull
        ELSE IF ~ToBoolean(parsed) \/ Get(parsed, "v") # JNum(1) \/ Get(parsed, "items").t # "array"
        THEN JNull
        ELSE JObj([v |-> JNum(1),
                   currentId |-> IF IsString(cur) /\ Trim(cur.s) # <<>> THEN cur ELSE JNull,
                   items |-> JArr(ListItems(Get(parsed, "items").a))])

writeConversationsIndex(store, index) ==
    setItem(store, CONVERSATIONS_INDEX_KEY, JsonStringify(index))

conversationDetailKey(id) == CONVERSATION_DETAIL_KEY_PREFIX \o id

\* readConversationDetail(storage, id): the detail, or null.
readConversationDetail(store, id) ==
    LET raw == getItem(store, conversationDetailKey(id))
        parsed == safeJsonParse(raw)
        messagesRes == normalizeMessages(Get(parsed, "messages"))
    IN  IF Missing(raw) THEN JNull
        ELSE IF ~ToBoolean(parsed) \/ Get(parsed, "v") # JNum(1) \/ Get(parsed, "id") # JStr(id)
        THEN JNull
        ELSE IF ~messagesRes.ok THEN JNull
        ELSE JObj([v |-> JNum(1), id |-> JStr(id), messages |-> messagesRes.messages,
                   run |-> normalizeRunSnapshot(Get(parsed, "run"))])

writeConversationDetail(store, detail) ==
    setItem(store, conversationDetailKey(Get(detail, "id").s), JsonStringify(detail))

deleteConversationDetail(store, id) == removeItem(store, conversationDetailKey(id))

\* The comparison of sortConversations is negative: a goes before b.
GoesBefore(a, b) ==
    IF Get(a, "pinned") # Get(b, "pinned") THEN Get(a, "pinned").b
    ELSE Get(b, "updatedAt").n - Get(a, "updatedAt").n < 0

\* Array.prototype.sort is stable: an item goes before the first item it
\* goes before.
RECURSIVE InsertSorted(_, _)
InsertSorted(sorted, item) ==
    IF sorted = <<>> THEN <<item>>
    ELSE IF GoesBefore(item, Head(sorted)) THEN <<item>> \o sorted
    ELSE <<Head(sorted)>> \o InsertSorted(Tail(sorted), item)

RECURSIVE SortedFrom(_, _)
SortedFrom(items, sorted) ==
    IF items = <<>> THEN sorted
    ELSE SortedFrom(Tail(items), InsertSorted(sorted, Head(items)))

sortConversations(items) == SortedFrom(items, <<>>)

\* A plausible slip: every item is kept.
DedupeKeepsAll(items, map) == map \o items

\* The Map of ensureConversations after the loop over the items: one value
\* for each id, in the order the ids were first set.
RECURSIVE DedupeById(_, _)
DedupeById(items, map) ==
    IF items = <<>> THEN map
    ELSE
    LET item == Head(items)
        at == {i \in 1..Len(map) : Get(map[i], "id") = Get(item, "id")}
    IN  IF at = {} THEN DedupeById(Tail(items), Append(map, item))
        ELSE LET i == CHOOSE j \in at : TRUE
             IN  IF Get(item, "updatedAt").n >= Get(map[i], "updatedAt").n
                 THEN DedupeById(Tail(items), [map EXCEPT ![i] = item])
                 ELSE DedupeById(Tail(items), map)

\* The empty detail ensureConversations writes.
EmptyDetail(id) == JObj([v |-> JNum(1), id |-> JStr(id), messages |-> JArr(<<>>)])

\* ensureConversations(storage, now), with the id createId() gives: the
\* storage afterwards and the value returned.
ensureConversations(store, now, newId) ==
    LET read == readConversationsIndex(store)
        index == IF read = JNull
                 THEN JObj([v |-> JNum(1), currentId |-> JNull, items |-> JArr(<<>>)])
                 ELSE read
        items == sortConversations(DedupeById(Get(index, "items").a, <<>>))
    IN  IF Len(items) = 0
        THEN LET meta == JObj([id |-> JStr(newId),
                               title |-> JStr(DEFAULT_CONVERSATION_TITLE),
                               createdAt |-> JNum(Floor(now)),
                               updatedAt |-> JNum(Floor(now)),
                               lastSnippet |-> JStr(<<>>),
                               pinned |-> JBool(FALSE)])
                 created == JObj([v |-> JNum(1), currentId |-> JStr(newId), items |-> JArr(<<meta>>)])
             IN  [store |-> writeConversationDetail(writeConversationsIndex(store, created),
                                                    EmptyDetail(newId)),
                  index |-> created,
                  currentId |-> newId]
        ELSE LET cur == Get(index, "currentId")
                 currentId == IF ToBoolean(cur) /\ \E i \in 1..Len(items) : Get(items[i], "id") = cur
                              THEN cur.s
                              ELSE Get(items[1], "id").s
                 chosen == JObj([v |-> JNum(1), currentId |-> JStr(currentId), items |-> JArr(items)])
                 written == writeConversationsIndex(store, chosen)
             IN  [store |-> IF readConversationDetail(written, currentId) = JNull
                            THEN writeConversationDetail(written, EmptyDetail(currentId))
                            ELSE written,
                  index |-> chosen,
                  currentId |-> currentId]


\* ---- the contents of localStorage ensureConversations is run on

MaxItems == 2

IdA == <<"a">>

IdB == <<"b">>

\* Stored list items: ids that are equal once trimmed, a blank id, and
\* what is no item.
StoredItems ==
    { Compact([id |-> id, updatedAt |-> u, pinned |-> p])
      : id \in {JStr(IdA), JStr(IdB), JStr(<<"a", " ">>), JStr(<<" ">>)},
        u \in {JNum(1), JNum(2)},
        p \in {Undefined, JBool(TRUE)} }
    \cup {JNull}

RECURSIVE ItemLists(_)
ItemLists(n) ==
    IF n = 0 THEN {<<>>}
    ELSE ItemLists(n - 1) \cup
         {Append(l, it) : l \in {x \in ItemLists(n - 1) : Len(x) = n - 1}, it \in StoredItems}

StoredCurrentIds ==
    {Undefined, JStr(IdA), JStr(IdB), JStr(<<"z">>), JStr(<<"a", " ">>), JNum(1)}

StoredIndexes ==
    { NoItem, PlainText(<<"{not json">>), JsonText(JNull),
      JsonText(Compact([v |-> JNum(2), items |-> JArr(<<>>)])),
      JsonText(Compact([v |-> JNum(1), items |-> JStr(<<"x">>)])) }
    \cup
    { JsonText(Compact([v |-> JNum(1), currentId |-> c, items |-> JArr(l)]))
      : c \in StoredCurrentIds, l \in ItemLists(MaxItems) }

UserMessage(id, text) ==
    JObj([id |-> JStr(id), role |-> JStr(<<"user">>), content |-> JStr(text), at |-> JNum(1)])

\* Stored details of the conversation a: none, a valid one, one stored
\* under the key of another id, and one that is no JSON.
StoredDetailsA ==
    { NoItem,
      JsonText(JObj([v |-> JNum(1), id |-> JStr(IdA), messages |-> JArr(<<UserMessage(<<"m1">>, <<"h", "i">>)>>)])),
      JsonText(JObj([v |-> JNum(1), id |-> JStr(IdB), messages |-> JArr(<<>>)])),
      PlainText(<<"{not json">>) }

\* Stored details of the conversation b: none, and one whose messages are invalid.
StoredDetailsB ==
    { NoItem,
      JsonText(JObj([v |-> JNum(1), id |-> JStr(IdB), messages |-> JArr(<<JStr(<<"x">>)>>)])) }

\* localStorage with the items that are there.
StorageOf(index, detailA, detailB) ==
    LET texts == [k \in {CONVERSATIONS_INDEX_KEY, conversationDetailKey(IdA),
                         conversationDetailKey(IdB)} |->
                    IF k = CONVERSATIONS_INDEX_KEY THEN index
                    ELSE IF k = conversationDetailKey(IdA) THEN detailA ELSE detailB]
    IN  [k \in {x \in DOMAIN texts : texts[x] # NoItem} |-> texts[k]]

NotEnsured == [store |-> <<>>, index |-> JNull, currentId |-> <<>>]

StoreInit ==
    /\ storage \in {StorageOf(i, a, b) : i \in StoredIndexes, a \in StoredDetailsA, b \in StoredDetailsB}
    /\ storageBefore = storage
    /\ ensured = NotEnsured
    /\ generated = 0

StoreIdle ==
    /\ storage = <<>>
    /\ storageBefore = <<>>
    /\ ensured = NotEnsured
    /\ generated = 0

\* The page calls ensureConversations on what localStorage holds.
EnsureConversations ==
    /\ ensured = NotEnsured
    /\ \E r \in {ensureConversations(storage, Now, createId(generated + 1))} :
        /\ storage' = r.store
        /\ ensured' = r
        /\ generated' = IF r.currentId = createId(generated + 1) THEN generated + 1 ELSE generated
    /\ UNCHANGED storageBefore
    /\ StoreFrame

StoreNext == EnsureConversations

\* ---- C26: ensureConversations establishes a well-formed store

\* The value stored under the index key, as JSON.parse gives it.
StoredIndex == safeJsonParse(getItem(storage, CONVERSATIONS_INDEX_KEY))

StoredItemIds ==
    LET items == Get(StoredIndex, "items")
    IN  IF items.t = "array" THEN [i \in 1..Len(items.a) |-> Get(items.a[i], "id")] ELSE <<>>

\* C26: after ensureConversations has returned, the stored index has at
\* least one item, the ids of its items are pairwise distinct, its currentId
\* is the id of one of the items and is the currentId returned, and
\* readConversationDetail of it is not null.
C26_WellFormedStore ==
    ensured # NotEnsured =>
        /\ Len(StoredItemIds) >= 1
        /\ \A i, j \in 1..Len(StoredItemIds) : i # j => StoredItemIds[i] # StoredItemIds[j]
        /\ \A i \in 1..Len(StoredItemIds) : IsString(StoredItemIds[i])
        /\ Get(StoredIndex, "currentId") = JStr(ensured.currentId)
        /\ \E i \in 1..Len(StoredItemIds) : StoredItemIds[i] = JStr(ensured.currentId)
        /\ readConversationDetail(storage, ensured.currentId) # JNull
        /\ readConversationsIndex(storage) = ensured.index

\* The store held two items whose ids are equal once trimmed, a currentId
\* that no item has and a detail of a that is no JSON; ensureConversations
\* has returned the one item a as the current conversation.
C26_Witness ==
    /\ ensured # NotEnsured
    /\ Get(safeJsonParse(getItem(storageBefore, CONVERSATIONS_INDEX_KEY)), "items").t = "array"
    /\ Len(Get(safeJsonParse(getItem(storageBefore, CONVERSATIONS_INDEX_KEY)), "items").a) = 2
    /\ Get(safeJsonParse(getItem(storageBefore, CONVERSATIONS_INDEX_KEY)), "currentId") = JStr(<<"z">>)
    /\ getItem(storageBefore, conversationDetailKey(IdA)) = PlainText(<<"{not json">>)
    /\ Len(StoredItemIds) = 1
    /\ ensured.currentId = IdA
    /\ getItem(storage, conversationDetailKey(IdA)) = JsonStringify(EmptyDetail(IdA))

\* The store was empty; ensureConversations has created a conversation.
C26_CreatedWitness ==
    /\ ensured # NotEnsured
    /\ storageBefore = <<>>
    /\ generated = 1
    /\ ensured.currentId = createId(1)

-----------------------------------------------------------------------------
(* What the page persists: routes/+page.svelte, settings and conversations *)
(*                                                                         *)
(* The page's state is the record page, one field for each variable of the *)
(* component that reaches localStorage, a download or the proxy.  The      *)
(* texts the user types (model, system prompt, prompts, titles) and the    *)
(* texts the upstream answers are words; the API key is a word of its own. *)

SETTINGS_STORAGE_KEY == <<"edgeai-playground:settings:v1">>

OpenAi == <<"openai">>

Anthropic == <<"anthropic">>

DefaultBaseUrl(p) ==
    IF p = OpenAi THEN <<"https://api.openai.com">> ELSE <<"https://api.anthropic.com">>

DefaultVersion == <<"2023-06-01">>

\* let providerCache, as declared (temperature is 0.7 in the source; the
\* numbers of the model are integers).
InitialProviderCache ==
    [openai |-> JObj([baseUrl |-> JStr(DefaultBaseUrl(OpenAi)),
                      model |-> JStr(<<>>),
                      temperature |-> JNum(1),
                      topP |-> JNum(1),
                      presencePenalty |-> JNum(0),
                      frequencyPenalty |-> JNum(0)]),
     anthropic |-> JObj([baseUrl |-> JStr(DefaultBaseUrl(Anthropic)),
                         model |-> JStr(<<>>),
                         anthropicVersion |-> JStr(DefaultVersion)])]

\* The component as declared, before onMount.
DeclaredPage ==
    [conversationsHydrated |-> FALSE,
     settingsHydrated |-> FALSE,
     provider |-> OpenAi,
     lastProvider |-> OpenAi,
     baseUrl |-> DefaultBaseUrl(OpenAi),
     apiKey |-> <<>>,
     model |-> <<>>,
     systemPrompt |-> <<>>,
     temperature |-> 1,
     topP |-> 1,
     presencePenalty |-> 0,
     frequencyPenalty |-> 0,
     maxTokens |-> 1024,
     anthropicVersion |-> DefaultVersion,
     showThinking |-> FALSE,
     thinkingAutoExpand |-> FALSE,
     includeUsage |-> TRUE,
     providerCache |-> InitialProviderCache,
     messages |-> <<>>,
     streaming |-> FALSE,
     conversations |-> <<>>,
     currentConversationId |-> <<>>,
     currentConversationRun |-> Undefined,
     saveTimer |-> FALSE,
     conversationSaveTimer |-> FALSE,
     importing |-> NoItem,
     clicks |-> 0]

\* safeProvider(v)
safeProvider(v) == IF v = JStr(Anthropic) \/ v = JStr(OpenAi) THEN v.s ELSE OpenAi

\* readSettings(): the stored settings, or null.
readSettings(store) ==
    LET raw == getItem(store, SETTINGS_STORAGE_KEY)
        parsed == safeJsonParse(raw)
        openai == Coalesce(Get(parsed, "openai"), EmptyObj)
        anthropic == Coalesce(Get(parsed, "anthropic"), EmptyObj)
        common == Coalesce(Get(parsed, "common"), EmptyObj)
    IN  IF Missing(raw) \/ ParseThrows(raw) THEN JNull
        ELSE IF ~ToBoolean(parsed) \/ Get(parsed, "v") # JNum(1) THEN JNull
        ELSE JObj([
            v |-> JNum(1),
            provider |-> JStr(safeProvider(Get(parsed, "provider"))),
            openai |-> JObj([
                baseUrl |-> JStr(safeString(Get(openai, "baseUrl"), DefaultBaseUrl(OpenAi))),
                model |-> JStr(safeString(Get(openai, "model"), <<>>)),
                temperature |-> JNum(clamp(safeNumber(Get(openai, "temperature"), 1), 0, 2)),
                topP |-> JNum(clamp(safeNumber(
                            Coalesce(Get(openai, "topP"), Get(openai, "top_p")), 1), 0, 1)),
                presencePenalty |-> JNum(clamp(safeNumber(
                            Coalesce(Get(openai, "presencePenalty"), Get(openai, "presence_penalty")), 0),
                            -2, 2)),
                frequencyPenalty |-> JNum(clamp(safeNumber(
                            Coalesce(Get(openai, "frequencyPenalty"), Get(openai, "frequency_penalty")), 0),
                            -2, 2))]),
            anthropic |-> JObj([
                baseUrl |-> JStr(safeString(Get(anthropic, "baseUrl"), DefaultBaseUrl(Anthropic))),
                model |-> JStr(safeString(Get(anthropic, "model"), <<>>)),
                anthropicVersion |-> JStr(safeString(Get(anthropic, "anthropicVersion"), DefaultVersion))]),
            common |-> JObj([
                systemPrompt |-> JStr(safeString(Get(common, "systemPrompt"), <<>>)),
                maxTokens |-> JNum(Max(1, Floor(safeNumber(Get(common, "maxTokens"), 1024)))),
                showThinking |-> JBool(safeBoolean(Get(common, "showThinking"), FALSE)),
                thinkingAutoExpand |-> JBool(safeBoolean(Get(common, "thinkingAutoExpand"), FALSE)),
                includeUsage |-> JBool(safeBoolean(Get(common, "includeUsage"), TRUE))])])

\* writeSettings(settings)
writeSettings(store, settings) == setItem(store, SETTINGS_STORAGE_KEY, JsonStringify(settings))

\* snapshotProviderToCache(p): the page afterwards.
snapshotProviderToCache(pg, p) ==
    IF p = OpenAi
    THEN [pg EXCEPT !.providerCache.openai =
            JObj([baseUrl |-> JStr(pg.baseUrl),
                  model |-> JStr(pg.model),
                  temperature |-> JNum(clamp(pg.temperature, 0, 2)),
                  topP |-> JNum(clamp(pg.topP, 0, 1)),
                  presencePenalty |-> JNum(clamp(pg.presencePenalty, -2, 2)),
                  frequencyPenalty |-> JNum(clamp(pg.frequencyPenalty, -2, 2))])]
    ELSE [pg EXCEPT !.providerCache.anthropic =
            JObj([baseUrl |-> JStr(pg.baseUrl),
                  model |-> JStr(pg.model),
                  anthropicVersion |-> JStr(pg.anthropicVersion)])]

\* a || b for strings
OrElse(a, b) == IF a # <<>> THEN a ELSE b

\* applyCacheToFields(p): the page afterwards.
applyCacheToFields(pg, p) ==
    IF p = OpenAi
    THEN LET c == pg.providerCache.openai
         IN  [pg EXCEPT !.baseUrl = OrElse(Get(c, "baseUrl").s, DefaultBaseUrl(OpenAi)),
                        !.model = Get(c, "model").s,
                        !.temperature = clamp(Get(c, "temperature").n, 0, 2),
                        !.topP = clamp(Get(c, "topP").n, 0, 1),
                        !.presencePenalty = clamp(Get(c, "presencePenalty").n, -2, 2),
                        !.frequencyPenalty = clamp(Get(c, "frequencyPenalty").n, -2, 2)]
    ELSE LET c == pg.providerCache.anthropic
         IN  [pg EXCEPT !.baseUrl = OrElse(Get(c, "baseUrl").s, DefaultBaseUrl(Anthropic)),
                        !.model = Get(c, "model").s,
                        !.anthropicVersion = OrElse(Get(c, "anthropicVersion").s, DefaultVersion)]

\* The $effect that saves the settings: a change of a setting it reads
\* sets the 250 ms timer, once the settings are hydrated.
SettingsEffect(pg) == IF pg.settingsHydrated THEN [pg EXCEPT !.saveTimer = TRUE] ELSE pg

\* The settings the timer of the $effect writes.
SettingsToWrite(pg) ==
    JObj([v |-> JNum(1),
          provider |-> JStr(pg.provider),
          openai |-> pg.providerCache.openai,
          anthropic |-> pg.providerCache.anthropic,
          common |-> JObj([systemPrompt |-> JStr(pg.systemPrompt),
                           maxTokens |-> JNum(Max(1, Floor(pg.maxTokens))),
                           showThinking |-> JBool(pg.showThinking),
                           thinkingAutoExpand |-> JBool(pg.thinkingAutoExpand),
                           includeUsage |-> JBool(pg.includeUsage)])])

\* Date.now() of the page: the clock advances with the user's clicks.
Clock(pg) == Now + pg.clicks

\* calcLastSnippet(messages)
RECURSIVE calcLastSnippet(_)
calcLastSnippet(msgs) ==
    IF msgs = <<>> THEN <<>>
    ELSE LET m == msgs[Len(msgs)]
             text == IF IsString(Get(m, "content")) THEN normalizeWhitespace(Get(m, "content").s)
                     ELSE <<>>
         IN  IF text # <<>> THEN truncate(text, 80)
             ELSE calcLastSnippet(SubSeq(msgs, 1, Len(msgs) - 1))

\* deriveTitleFromFirstUserMessage(messages): the title, or null.
deriveTitleFromFirstUserMessage(msgs) ==
    LET users == {i \in 1..Len(msgs) :
                    /\ Get(msgs[i], "role") = JStr(<<"user">>)
                    /\ IsString(Get(msgs[i], "content"))
                    /\ Trim(Get(msgs[i], "content").s) # <<>>}
    IN  IF users = {} THEN Null
        ELSE LET first == CHOOSE i \in users : \A j \in users : i <= j
                 oneLine == normalizeWhitespace(Get(msgs[first], "content").s)
             IN  IF oneLine = <<>> THEN Null ELSE truncate(oneLine, 24)

\* updateConversationMetaFromMessages(meta, messages, now)
updateConversationMetaFromMessages(meta, msgs, now) ==
    LET next == With(With(meta, "updatedAt", JNum(Floor(now))),
                     "lastSnippet", JStr(calcLastSnippet(msgs)))
        derived == deriveTitleFromFirstUserMessage(msgs)
    IN  IF normalizeWhitespace(Get(meta, "title").s) = normalizeWhitespace(DEFAULT_CONVERSATION_TITLE)
           /\ derived # Null
        THEN With(next, "title", JStr(derived))
        ELSE next

\* buildConversationExport(meta, detail)
buildConversationExport(meta, detail) ==
    JObj([kind |-> JStr(<<"edgeai-playground:conversation-export">>),
          v |-> JNum(1),
          title |-> Get(meta, "title"),
          createdAt |-> Get(meta, "createdAt"),
          updatedAt |-> Get(meta, "updatedAt"),
          lastSnippet |-> Get(meta, "lastSnippet"),
          messages |-> Get(detail, "messages"),
          run |-> Get(detail, "run")])

serializeConversationExport(meta, detail) == JsonStringify(buildConversationExport(meta, detail))

\* The lines renderConversationMarkdown makes of the messages.
RECURSIVE MessageLines(_)
MessageLines(msgs) ==
    IF msgs = <<>> THEN <<>>
    ELSE LET m == Head(msgs)
         IN  <<"## ", (IF Get(m, "role") = JStr(<<"user">>) THEN "User" ELSE "Assistant"),
               " (date)", "\n", "\n">>
                 \o Get(m, "content").s \o <<"\n", "\n">> \o MessageLines(Tail(msgs))

\* renderConversationMarkdown(meta, detail)
renderConversationMarkdown(meta, detail) ==
    LET run == Get(detail, "run")
    IN  PlainText(
            <<"# ">> \o Get(meta, "title").s
              \o <<"\n", "\n", "- createdAt: (date)", "\n", "- updatedAt: (date)", "\n">>
              \o (IF ToBoolean(run)
                  THEN <<"- provider: ">> \o Get(run, "provider").s \o <<"\n">>
                        \o (IF Get(run, "baseUrl").s # <<>>
                            THEN <<"- baseUrl: ">> \o Get(run, "baseUrl").s \o <<"\n">> ELSE <<>>)
                        \o (IF Get(run, "model").s # <<>>
                            THEN <<"- model: ">> \o Get(run, "model").s \o <<"\n">> ELSE <<>>)
                  ELSE <<>>)
              \o <<"\n">> \o MessageLines(Get(detail, "messages").a))

\* parseConversationImport(text, now), with the id createId() gives.
parseConversationImport(text, now, newId) ==
    LET parsed == safeJsonParse(text)
        messagesRes == normalizeMessages(Get(parsed, "messages"))
        createdAt == Floor(safeNumber(Get(parsed, "createdAt"), now))
        updatedAt == Floor(safeNumber(Get(parsed, "updatedAt"), Max(createdAt, now)))
    IN  IF text.kind # "json" /\ Trim(text.text) = <<>> THEN [ok |-> FALSE]
        ELSE IF ~IsObjectLike(parsed) THEN [ok |-> FALSE]
        ELSE IF ToBoolean(Get(parsed, "kind"))
                /\ Get(parsed, "kind") # JStr(<<"edgeai-playground:conversation-export">>)
        THEN [ok |-> FALSE]
        ELSE IF ~messagesRes.ok THEN [ok |-> FALSE]
        ELSE [ok |-> TRUE,
              meta |-> JObj([id |-> JStr(newId),
                             title |-> JStr(normalizeConversationTitle(
                                           safeString(Get(parsed, "title"), DEFAULT_CONVERSATION_TITLE))),
                             createdAt |-> JNum(createdAt),
                             updatedAt |-> JNum(updatedAt),
                             lastSnippet |-> IF IsString(Get(parsed, "lastSnippet"))
                                             THEN Get(parsed, "lastSnippet")
                                             ELSE JStr(calcLastSnippet(messagesRes.messages.a)),
                             pinned |-> JBool(FALSE)]),
              detail |-> JObj([v |-> JNum(1), id |-> JStr(newId),
                               messages |-> messagesRes.messages,
                               run |-> normalizeRunSnapshot(Get(parsed, "run"))])]

\* sortConversationList(items): the comparison of sortConversations.
sortConversationList(items) == SortedFrom(items, <<>>)

\* getConversationMeta(id): the positions of the list that hold the id.
MetaAt(pg, id) == {i \in 1..Len(pg.conversations) : Get(pg.conversations[i], "id") = JStr(id)}

\* persistConversationsIndex(): localStorage afterwards.
persistConversationsIndex(pg, store) ==
    IF ~pg.conversationsHydrated THEN store
    ELSE writeConversationsIndex(store,
            JObj([v |-> JNum(1),
                  currentId |-> IF pg.currentConversationId # <<>>
                                THEN JStr(pg.currentConversationId) ELSE JNull,
                  items |-> JArr(pg.conversations)]))

\* The detail of the current conversation as the page holds it.
CurrentDetail(pg, id) ==
    JObj([v |-> JNum(1), id |-> JStr(id), messages |-> JArr(pg.messages),
          run |-> pg.currentConversationRun])

\* persistCurrentConversationDetail(): localStorage afterwards.
persistCurrentConversationDetail(pg, store) ==
    IF ~pg.conversationsHydrated \/ pg.currentConversationId = <<>> THEN store
    ELSE writeConversationDetail(store, CurrentDetail(pg, pg.currentConversationId))

\* schedulePersistCurrentConversation(): the 250 ms timer is set anew.
schedulePersistCurrentConversation(pg) ==
    IF ~pg.conversationsHydrated THEN pg ELSE [pg EXCEPT !.conversationSaveTimer = TRUE]

\* touchCurrentConversation(now)
touchCurrentConversation(pg, now) ==
    IF pg.currentConversationId = <<>> \/ MetaAt(pg, pg.currentConversationId) = {} THEN pg
    ELSE LET idx == CHOOSE i \in MetaAt(pg, pg.currentConversationId) :
                        \A j \in MetaAt(pg, pg.currentConversationId) : i <= j
             touched == [pg.conversations EXCEPT
                            ![idx] = updateConversationMetaFromMessages(@, pg.messages, now)]
         IN  schedulePersistCurrentConversation(
                [pg EXCEPT !.conversations = sortConversationList(touched)])

\* pushMessage(role, content, thinking, usage): the message gets a random id.
pushMessage(pg, role, text, thinkingText, usageValue) ==
    touchCurrentConversation(
        [pg EXCEPT !.messages = Append(@,
            JObj([id |-> JStr(<<"m-" \o ToString(pg.clicks) \o "-" \o ToString(Len(pg.messages))>>),
                  role |-> JStr(<<role>>),
                  content |-> JStr(text),
                  thinking |-> thinkingText,
                  usage |-> usageValue,
                  at |-> JNum(Clock(pg))]))],
        Clock(pg))

\* A plausible slip: the run snapshot is the payload of the proxy request.
RunSnapshotWithKey(pg) ==
    JObj([provider |-> JStr(pg.provider),
          baseUrl |-> JStr(Trim(pg.baseUrl)),
          apiKey |-> JStr(Trim(pg.apiKey)),
          model |-> JStr(Trim(pg.model)),
          systemPrompt |-> JStr(pg.systemPrompt),
          temperature |-> JNum(clamp(pg.temperature, 0, 2)),
          topP |-> JNum(clamp(pg.topP, 0, 1)),
          presencePenalty |-> JNum(clamp(pg.presencePenalty, -2, 2)),
          frequencyPenalty |-> JNum(clamp(pg.frequencyPenalty, -2, 2)),
          maxTokens |-> JNum(Max(1, Floor(pg.maxTokens))),
          anthropicVersion |-> JStr(OrElse(Trim(pg.anthropicVersion), DefaultVersion))])

\* The run snapshot send() takes.
RunSnapshot(pg) ==
    JObj([provider |-> JStr(pg.provider),
          baseUrl |-> JStr(Trim(pg.baseUrl)),
          model |-> JStr(Trim(pg.model)),
          systemPrompt |-> JStr(pg.systemPrompt),
          temperature |-> JNum(clamp(pg.temperature, 0, 2)),
          topP |-> JNum(clamp(pg.topP, 0, 1)),
          presencePenalty |-> JNum(clamp(pg.presencePenalty, -2, 2)),
          frequencyPenalty |-> JNum(clamp(pg.frequencyPenalty, -2, 2)),
          maxTokens |-> JNum(Max(1, Floor(pg.maxTokens))),
          anthropicVersion |-> JStr(OrElse(Trim(pg.anthropicVersion), DefaultVersion))])

\* The body send() posts to /api/chat (the upstream request without its
\* sampling parameters).
ProxyPayload(pg) ==
    Compact([provider |-> JStr(pg.provider),
             baseUrl |-> JStr(Trim(pg.baseUrl)),
             anthropicVersion |-> IF pg.provider = Anthropic THEN JStr(Trim(pg.anthropicVersion))
                                  ELSE Undefined,
             request |-> JObj([model |-> JStr(Trim(pg.model)),
                               messages |-> JArr(pg.messages)]),
             apiKey |-> JStr(Trim(pg.apiKey))])

\* A new list item.
NewMeta(id, title, now, snippet) ==
    JObj([id |-> JStr(id), title |-> JStr(title), createdAt |-> JNum(now),
          updatedAt |-> JNum(now), lastSnippet |-> JStr(snippet), pinned |-> JBool(FALSE)])

\* What a handler leaves: the page and localStorage.
Left(pg, store) == [page |-> pg, store |-> store]

\* createConversation(), with the id createId() gives.
createConversation(pg, store, id) ==
    IF pg.streaming THEN Left(pg, store)
    ELSE LET next == [pg EXCEPT
                        !.conversations = sortConversationList(
                            <<NewMeta(id, DEFAULT_CONVERSATION_TITLE, Clock(pg), <<>>)>> \o @),
                        !.currentConversationId = id,
                        !.currentConversationRun = Undefined,
                        !.messages = <<>>]
         IN  Left(next, persistConversationsIndex(next, writeConversationDetail(store, EmptyDetail(id))))

\* A plausible slip: a conversation can be selected while streaming.
selectConversationWhileStreaming(pg, store, id) ==
    IF id = <<>> \/ id = pg.currentConversationId THEN Left(pg, store)
    ELSE IF MetaAt(pg, id) = {} THEN Left(pg, store)
    ELSE LET read == readConversationDetail(store, id)
             detail == IF read = JNull THEN EmptyDetail(id) ELSE read
             healed == IF read = JNull THEN writeConversationDetail(store, detail) ELSE store
             next == [pg EXCEPT !.currentConversationId = id,
                                !.currentConversationRun = Get(detail, "run"),
                                !.messages = Get(detail, "messages").a]
         IN  Left(next, persistConversationsIndex(next, healed))

\* selectConversation(id)
selectConversation(pg, store, id) ==
    IF pg.streaming THEN Left(pg, store)
    ELSE IF id = <<>> \/ id = pg.currentConversationId THEN Left(pg, store)
    ELSE IF MetaAt(pg, id) = {} THEN Left(pg, store)
    ELSE LET read == readConversationDetail(store, id)
             detail == IF read = JNull THEN EmptyDetail(id) ELSE read
             healed == IF read = JNull THEN writeConversationDetail(store, detail) ELSE store
             next == [pg EXCEPT !.currentConversationId = id,
                                !.currentConversationRun = Get(detail, "run"),
                                !.messages = Get(detail, "messages").a]
         IN  Left(next, persistConversationsIndex(next, healed))

\* commitRenameConversation(id), with the title typed.
commitRenameConversation(pg, store, id, title) ==
    IF MetaAt(pg, id) = {} THEN Left(pg, store)
    ELSE LET idx == CHOOSE i \in MetaAt(pg, id) : \A j \in MetaAt(pg, id) : i <= j
             renamed == [pg.conversations EXCEPT
                            ![idx] = With(With(@, "title", JStr(normalizeConversationTitle(title))),
                                          "updatedAt", JNum(Clock(pg)))]
             next == [pg EXCEPT !.conversations = sortConversationList(renamed)]
         IN  Left(next, persistConversationsIndex(next, store))

\* The detail an export or a copy starts from.
DetailOf(pg, store, id) ==
    IF readConversationDetail(store, id) # JNull THEN readConversationDetail(store, id)
    ELSE IF id = pg.currentConversationId THEN CurrentDetail(pg, id)
    ELSE EmptyDetail(id)

\* duplicateConversation(id), with the id createId() gives.
duplicateConversation(pg, store, id, newId) ==
    IF pg.streaming \/ MetaAt(pg, id) = {} THEN Left(pg, store)
    ELSE LET meta == pg.conversations[CHOOSE i \in MetaAt(pg, id) : \A j \in MetaAt(pg, id) : i <= j]
             srcDetail == DetailOf(pg, store, id)
             nextMeta == NewMeta(newId,
                                 normalizeConversationTitle(Get(meta, "title").s \o <<" ", "copy">>),
                                 Clock(pg), Get(meta, "lastSnippet").s)
             copied == writeConversationDetail(store,
                          JObj([v |-> JNum(1), id |-> JStr(newId),
                                messages |-> Get(srcDetail, "messages"),
                                run |-> Get(srcDetail, "run")]))
             next == [pg EXCEPT !.conversations = sortConversationList(<<nextMeta>> \o @)]
         IN  selectConversation(next, persistConversationsIndex(next, copied), newId)

\* deleteConversation(id) when the user confirms, with the id createId() gives.
deleteConversation(pg, store, id, newId) ==
    IF pg.streaming \/ MetaAt(pg, id) = {} THEN Left(pg, store)
    ELSE LET deleted == deleteConversationDetail(store, id)
             next == [pg EXCEPT !.conversations =
                        SelectSeq(@, LAMBDA c : Get(c, "id") # JStr(id))]
         IN  IF pg.currentConversationId = id
             THEN (IF Len(next.conversations) = 0 THEN createConversation(next, deleted, newId)
                   ELSE selectConversation(next, deleted,
                            Get(sortConversationList(next.conversations)[1], "id").s))
             ELSE Left(next, persistConversationsIndex(next, deleted))

\* ---- the run of the page

\* The number of things the user does in a run; each one advances the clock.
MaxClicks == 3

\* The API key the user types.
ApiKey == <<"sk-secret">>

ModelNames == {<<>>, <<"gpt">>}

SystemPrompts == {<<>>, <<"be", " ", "brief">>}

Prompts == {<<>>, <<" ", "hi">>}

Replies == {<<>>, <<"hello">>}

Titles == {<<"notes">>}

\* The page of an earlier visit, when its timers had fired.
EarlierPage ==
    [DeclaredPage EXCEPT
        !.conversationsHydrated = TRUE,
        !.settingsHydrated = TRUE,
        !.model = <<"gpt">>,
        !.systemPrompt = <<"be", " ", "brief">>,
        !.providerCache.openai = With(@, "model", JStr(<<"gpt">>)),
        !.conversations = <<NewMeta(IdA, <<"hi">>, 1, <<"hi">>)>>,
        !.currentConversationId = IdA,
        !.messages = <<UserMessage(<<"m1">>, <<"hi">>)>>,
        !.currentConversationRun = RunSnapshot([DeclaredPage EXCEPT !.model = <<"gpt">>])]

\* localStorage as an earlier visit left it.
EarlierStorage ==
    persistCurrentConversationDetail(EarlierPage,
        persistConversationsIndex(EarlierPage,
            writeSettings(<<>>, SettingsToWrite(EarlierPage))))

\* Files the user imports: an export that was edited to carry the key in
\* fields of its own, and a file that is no JSON.
ImportFiles ==
    { JsonText(JObj([kind |-> JStr(<<"edgeai-playground:conversation-export">>),
                     v |-> JNum(1),
                     title |-> JStr(<<"old">>),
                     apiKey |-> JStr(ApiKey),
                     messages |-> JArr(<<With(UserMessage(<<"m9">>, <<"yo">>), "apiKey", JStr(ApiKey))>>),
                     run |-> With(RunSnapshot([DeclaredPage EXCEPT !.model = <<"gpt">>]),
                                  "apiKey", JStr(ApiKey))])),
      PlainText(<<"{not json">>) }

PersistInit ==
    /\ page = DeclaredPage
    /\ storage \in {<<>>, EarlierStorage}
    /\ downloaded = NoItem
    /\ proxyPayload = Undefined
    /\ storageBefore = <<>>
    /\ ensured = NotEnsured
    /\ generated = 0

PersistIdle ==
    /\ page = DeclaredPage
    /\ downloaded = NoItem
    /\ proxyPayload = Undefined

\* The user can act: onMount has run (it runs in the task that mounts the
\* page, before any event of the user is handled) and the run has clicks
\* left.
UserActs == page.conversationsHydrated /\ page.clicks < MaxClicks

\* onMount: the settings and the conversations are read.
Mount ==
    /\ ~page.conversationsHydrated
    /\ \E saved \in {readSettings(storage)},
          r \in {ensureConversations(storage, Now, createId(generated + 1))} :
        LET fields ==
                IF saved # JNull
                THEN applyCacheToFields(
                        [page EXCEPT
                            !.providerCache = [openai |-> Get(saved, "openai"),
                                               anthropic |-> Get(saved, "anthropic")],
                            !.systemPrompt = Get(Get(saved, "common"), "systemPrompt").s,
                            !.maxTokens = Get(Get(saved, "common"), "maxTokens").n,
                            !.showThinking = Get(Get(saved, "common"), "showThinking").b,
                            !.thinkingAutoExpand = Get(Get(saved, "common"), "thinkingAutoExpand").b,
                            !.includeUsage = Get(Get(saved, "common"), "includeUsage").b,
                            !.provider = Get(saved, "provider").s,
                            !.lastProvider = Get(saved, "provider").s],
                        Get(saved, "provider").s)
                ELSE snapshotProviderToCache([page EXCEPT !.lastProvider = page.provider],
                                             page.provider)
            detail == readConversationDetail(r.store, r.currentId)
        IN  /\ page' = [fields EXCEPT
                            !.conversations = Get(r.index, "items").a,
                            !.currentConversationId = r.currentId,
                            !.messages = IF detail # JNull THEN Get(detail, "messages").a ELSE <<>>,
                            !.currentConversationRun =
                                IF detail # JNull THEN Get(detail, "run") ELSE Undefined,
                            !.conversationsHydrated = TRUE,
                            !.settingsHydrated = TRUE,
                            !.saveTimer = TRUE]
            /\ storage' = IF detail # JNull THEN r.store
                          ELSE writeConversationDetail(r.store, EmptyDetail(r.currentId))
            /\ generated' = IF r.currentId = createId(generated + 1) THEN generated + 1
                            ELSE generated
    /\ UNCHANGED <<downloaded, proxyPayload>>
    /\ PersistFrame

\* The user types or clears the API key.
EditApiKey ==
    /\ UserActs
    /\ ~page.streaming
    /\ \E k \in {<<>>, ApiKey} \ {page.apiKey} : page' = [page EXCEPT !.apiKey = k, !.clicks = @ + 1]
    /\ UNCHANGED <<storage, generated, downloaded, proxyPayload>>
    /\ PersistFrame

\* The user types the model name.
EditModel ==
    /\ UserActs
    /\ ~page.streaming
    /\ \E m \in ModelNames \ {page.model} : page' = SettingsEffect([page EXCEPT !.model = m, !.clicks = @ + 1])
    /\ UNCHANGED <<storage, generated, downloaded, proxyPayload>>
    /\ PersistFrame

\* The user types the system prompt.
EditSystemPrompt ==
    /\ UserActs
    /\ ~page.streaming
    /\ \E s \in SystemPrompts \ {page.systemPrompt} :
        page' = SettingsEffect([page EXCEPT !.systemPrompt = s, !.clicks = @ + 1])
    /\ UNCHANGED <<storage, generated, downloaded, proxyPayload>>
    /\ PersistFrame

\* The user picks the other provider: switchProvider(provider).
SwitchProviderFields ==
    /\ UserActs
    /\ ~page.streaming
    /\ \E next \in {OpenAi, Anthropic} \ {page.provider} :
        page' = SettingsEffect(
                    applyCacheToFields(
                        [snapshotProviderToCache([page EXCEPT !.provider = next, !.clicks = @ + 1],
                                                 page.lastProvider)
                            EXCEPT !.lastProvider = next],
                        next))
    /\ UNCHANGED <<storage, generated, downloaded, proxyPayload>>
    /\ PersistFrame

\* The timer of the settings $effect fires.
SaveTimerFires ==
    /\ page.saveTimer
    /\ \E cached \in {snapshotProviderToCache(page, page.provider)} :
        /\ page' = [cached EXCEPT !.saveTimer = FALSE]
        /\ storage' = writeSettings(storage, SettingsToWrite(cached))
    /\ UNCHANGED <<generated, downloaded, proxyPayload>>
    /\ PersistFrame

\* send() with the prompt typed, up to the request; a send that returns
\* early changes nothing that is persisted.
SendPrompt ==
    /\ UserActs
    /\ \E text \in Prompts :
        /\ ~page.streaming
        /\ Trim(text) # <<>>
        /\ Trim(page.baseUrl) # <<>>
        /\ Trim(page.apiKey) # <<>>
        /\ Trim(page.model) # <<>>
        /\ \E pushed \in {pushMessage([page EXCEPT !.currentConversationRun = RunSnapshot(page),
                                            !.clicks = @ + 1],
                               "user", Trim(text), Undefined, Undefined)} :
            /\ page' = [pushed EXCEPT !.streaming = TRUE]
            /\ proxyPayload' = ProxyPayload(pushed)
    /\ UNCHANGED <<storage, generated, downloaded>>
    /\ PersistFrame

\* The finally block of send(), with the answer received.
FinishExchange ==
    /\ page.streaming
    /\ \E reply \in Replies :
        \E pushed \in {IF Trim(reply) # <<>>
                       THEN pushMessage(page, "assistant", Trim(reply), Undefined, Undefined)
                       ELSE page} :
            page' = [pushed EXCEPT !.streaming = FALSE]
    /\ UNCHANGED <<storage, generated, downloaded, proxyPayload>>
    /\ PersistFrame

\* clearChat()
ClearChat ==
    /\ ~page.streaming
    /\ UserActs
    /\ page.messages # <<>>
    /\ page' = touchCurrentConversation([page EXCEPT !.messages = <<>>, !.clicks = @ + 1],
                                        Clock(page) + 1)
    /\ UNCHANGED <<storage, generated, downloaded, proxyPayload>>
    /\ PersistFrame

\* The timer of schedulePersistCurrentConversation fires.
ConversationSaveTimerFires ==
    /\ page.conversationSaveTimer
    /\ storage' = persistCurrentConversationDetail(page, persistConversationsIndex(page, storage))
    /\ page' = [page EXCEPT !.conversationSaveTimer = FALSE]
    /\ UNCHANGED <<generated, downloaded, proxyPayload>>
    /\ PersistFrame

\* The ids of the conversations listed.
ListedIds == {Get(page.conversations[i], "id").s : i \in 1..Len(page.conversations)}

CreateConversation ==
    /\ UserActs
    /\ ~page.streaming
    /\ \E r \in {createConversation([page EXCEPT !.clicks = @ + 1], storage,
                                    createId(generated + 1))} :
        /\ page' = r.page
        /\ storage' = r.store
    /\ generated' = generated + 1
    /\ UNCHANGED <<downloaded, proxyPayload>>
    /\ PersistFrame

SelectConversation ==
    /\ ~page.streaming
    /\ \E id \in ListedIds \ {page.currentConversationId} :
        \E r \in {selectConversation(page, storage, id)} :
            /\ r.page # page
            /\ page' = r.page
            /\ storage' = r.store
    /\ UNCHANGED <<generated, downloaded, proxyPayload>>
    /\ PersistFrame

RenameConversation ==
    /\ ~page.streaming
    /\ UserActs
    /\ \E id \in ListedIds, title \in Titles :
        \E r \in {commitRenameConversation([page EXCEPT !.clicks = @ + 1], storage, id, title)} :
            /\ page' = r.page
            /\ storage' = r.store
    /\ UNCHANGED <<generated, downloaded, proxyPayload>>
    /\ PersistFrame

DuplicateConversation ==
    /\ UserActs
    /\ ~page.streaming
    /\ \E id \in ListedIds :
        \E r \in {duplicateConversation([page EXCEPT !.clicks = @ + 1], storage, id,
                                        createId(generated + 1))} :
            /\ page' = r.page
            /\ storage' = r.store
    /\ generated' = generated + 1
    /\ UNCHANGED <<downloaded, proxyPayload>>
    /\ PersistFrame

\* deleteConversation(id), confirmed.
DeleteConversation ==
    /\ UserActs
    /\ ~page.streaming
    /\ \E id \in ListedIds :
        \E r \in {deleteConversation([page EXCEPT !.clicks = @ + 1], storage, id,
                                     createId(generated + 1))} :
            /\ page' = r.page
            /\ storage' = r.store
            /\ generated' = IF r.page.currentConversationId = createId(generated + 1)
                            THEN generated + 1 ELSE generated
    /\ UNCHANGED <<downloaded, proxyPayload>>
    /\ PersistFrame

\* exportConversationJson(id)
ExportConversationJson ==
    /\ ~page.streaming
    /\ \E id \in ListedIds :
        LET meta == page.conversations[CHOOSE i \in MetaAt(page, id) : TRUE]
        IN  downloaded' = serializeConversationExport(meta, DetailOf(page, storage, id))
    /\ downloaded' # downloaded
    /\ UNCHANGED <<page, storage, generated, proxyPayload>>
    /\ PersistFrame

\* exportConversationMarkdown(id)
ExportConversationMarkdown ==
    /\ ~page.streaming
    /\ \E id \in ListedIds :
        LET meta == page.conversations[CHOOSE i \in MetaAt(page, id) : TRUE]
        IN  downloaded' = renderConversationMarkdown(meta, DetailOf(page, storage, id))
    /\ downloaded' # downloaded
    /\ UNCHANGED <<page, storage, generated, proxyPayload>>
    /\ PersistFrame

\* handleImportFileChange up to its await: the file is being read.
ImportStart ==
    /\ UserActs
    /\ ~page.streaming
    /\ page.importing = NoItem
    /\ \E file \in ImportFiles : page' = [page EXCEPT !.importing = file, !.clicks = @ + 1]
    /\ UNCHANGED <<storage, generated, downloaded, proxyPayload>>
    /\ PersistFrame

\* handleImportFileChange after its await: the file's text is there.
ImportDone ==
    /\ page.importing # NoItem
    /\ \E res \in {parseConversationImport(page.importing, Clock(page), createId(generated + 1))} :
        IF ~res.ok
        THEN /\ page' = [page EXCEPT !.importing = NoItem]
             /\ UNCHANGED <<storage, generated>>
        ELSE \E listed \in {[page EXCEPT
                                !.conversations = sortConversationList(<<res.meta>> \o @),
                                !.importing = NoItem]} :
                \E r \in {selectConversation(listed,
                              persistConversationsIndex(listed,
                                  writeConversationDetail(storage, res.detail)),
                              Get(res.meta, "id").s)} :
                    /\ page' = r.page
                    /\ storage' = r.store
                    /\ generated' = generated + 1
    /\ UNCHANGED <<downloaded, proxyPayload>>
    /\ PersistFrame

PersistNext ==
    \/ Mount
    \/ EditApiKey
    \/ EditModel
    \/ EditSystemPrompt
    \/ SwitchProviderFields
    \/ SaveTimerFires
    \/ SendPrompt
    \/ FinishExchange
    \/ ClearChat
    \/ ConversationSaveTimerFires
    \/ CreateConversation
    \/ SelectConversation
    \/ RenameConversation
    \/ DuplicateConversation
    \/ DeleteConversation
    \/ ExportConversationJson
    \/ ExportConversationMarkdown
    \/ ImportStart
    \/ ImportDone

\* ---- C24: the API key is never persisted

\* Some string of the value holds the API key.
RECURSIVE MentionsKey(_)
MentionsKey(v) ==
    CASE v.t = "string" -> \E i \in 1..Len(v.s) : <<v.s[i]>> = ApiKey
      [] v.t = "object" -> \E k \in DOMAIN v.f : MentionsKey(v.f[k])
      [] v.t = "array" -> \E i \in 1..Len(v.a) : MentionsKey(v.a[i])
      [] OTHER -> FALSE

\* The text of an item or of a download holds the API key.
TextMentionsKey(text) ==
    IF text.kind = "json" THEN MentionsKey(text.value)
    ELSE \E i \in 1..Len(text.text) : <<text.text[i]>> = ApiKey

\* C24: no item of localStorage (the settings, the conversations index,
\* the conversation details with their run snapshot) and no conversation
\* export holds the API key, whatever the user did before.
C24_ApiKeyNeverPersisted ==
    /\ \A k \in DOMAIN storage : ~TextMentionsKey(storage[k])
    /\ ~TextMentionsKey(downloaded)

\* The key was typed and sent to the proxy; the settings, the index and
\* the detail of the conversation with its run snapshot, the prompt and the
\* answer are stored, and the conversation was exported with its run.
C24_Witness ==
    /\ page.apiKey = ApiKey
    /\ MentionsKey(proxyPayload)
    /\ ~page.streaming
    /\ SETTINGS_STORAGE_KEY \in DOMAIN storage
    /\ CONVERSATIONS_INDEX_KEY \in DOMAIN storage
    /\ readConversationDetail(storage, page.currentConversationId) # JNull
    /\ Len(Get(readConversationDetail(storage, page.currentConversationId), "messages").a) = 2
    /\ Get(readConversationDetail(storage, page.currentConversationId), "run") # Undefined
    /\ downloaded.kind = "json"
    /\ Get(downloaded.value, "run") # Undefined
    /\ Len(Get(downloaded.value, "messages").a) = 2

-----------------------------------------------------------------------------
(* Further properties of the frame reader run                              *)

\* The events of the text before its last blank-line delimiter, the
\* carriage returns taken out; none when the text has no delimiter.
EventsBeforeLastDelimiter(text) ==
    IF LastIndexOf(RemoveCR(text), BlankLine) = -1 THEN <<>>
    ELSE parseSseChunk(Slice(RemoveCR(text), 0, LastIndexOf(RemoveCR(text), BlankLine)))

\* The text after the last blank-line delimiter, the carriage returns
\* taken out; the whole text when it has no delimiter.
TextAfterLastDelimiter(text) ==
    IF LastIndexOf(RemoveCR(text), BlankLine) = -1 THEN RemoveCR(text)
    ELSE SliceFrom(RemoveCR(text), LastIndexOf(RemoveCR(text), BlankLine) + 2)

\* C31: when the upstream closes, the step that ends the read loop hands
\* no event to the handler, and the events handed over in the whole run are
\* those of the text before its last blank-line delimiter: the text after
\* it, a complete data line included, makes no event.
C31_UnterminatedFrameDiscarded ==
    /\ [][(ssePhase = "reading" /\ ssePhase' = "ended") => sseSeen' = sseSeen]_vars
    /\ [](ssePhase = "ended" => sseSeen = EventsBeforeLastDelimiter(sseText))

\* The stream ended after one frame and a complete data line that no blank
\* line followed: one event was handed over, and the line, which would
\* parse as an event, is what the buffer still holds.
C31_Witness ==
    /\ ssePhase = "ended"
    /\ sseText = <<"d", "a", "t", "a", ":", "x", "\n", "\n", "d", "a", "t", "a", ":", "x", "\n">>
    /\ Len(sseSeen) = 1
    /\ TextAfterLastDelimiter(sseText) = <<"d", "a", "t", "a", ":", "x", "\n">>
    /\ Len(parseSseChunk(TextAfterLastDelimiter(sseText))) = 1

\* The text written with LF endings: '\r\n' and a '\r' that no '\n'
\* follows are each one line ending.
RECURSIVE WithLfEndings(_)
WithLfEndings(text) ==
    IF text = <<>> THEN <<>>
    ELSE IF Head(text) # "\r" THEN <<Head(text)>> \o WithLfEndings(Tail(text))
    ELSE IF Len(text) >= 2 /\ text[2] = "\n" THEN <<"\n">> \o WithLfEndings(SubSeq(text, 3, Len(text)))
    ELSE <<"\n">> \o WithLfEndings(Tail(text))

\* Every '\r' of the text is followed by '\n'.
NoLoneCR(text) ==
    \A i \in 1..Len(text) : text[i] = "\r" => (i < Len(text) /\ text[i + 1] = "\n")

\* C32: a body whose lines end in CRLF or in CR alone yields, read to its
\* end, the events of the same body written with LF endings.
C32_LineEndingsNormalised ==
    ssePhase = "ended" => sseSeen = EventsBeforeLastDelimiter(WithLfEndings(sseText))

\* C32, CRLF alone: a body in which every '\r' is followed by '\n' yields
\* the events of the same body written with LF endings.
C32_CrLfNormalised ==
    (ssePhase = "ended" /\ NoLoneCR(sseText))
        => sseSeen = EventsBeforeLastDelimiter(WithLfEndings(sseText))

\* A data line and a blank line that ends in CRLF were read, the CR and
\* the LF in different chunks: the event was handed over.
C32_CrLfWitness ==
    /\ ssePhase = "ended"
    /\ sseText = <<"d", "a", "t", "a", ":", "x", "\n", "\r", "\n">>
    /\ sseSplit
    /\ Len(sseSeen) = 1

\* A data line and a blank line that ends in CR alone were read to the
\* end: no event was handed over, where the LF writing has one.
C32_LoneCrWitness ==
    /\ ssePhase = "ended"
    /\ sseText = <<"d", "a", "t", "a", ":", "x", "\n", "\r">>
    /\ sseSeen = <<>>
    /\ Len(EventsBeforeLastDelimiter(WithLfEndings(sseText))) = 1

-----------------------------------------------------------------------------
(* Further properties of the usage fold                                    *)

\* None of the patches merged so far carries totalTokens.
NoTotalReported ==
    \A i \in 1..Len(applied) : ~IsNumber(Get(applied[i], "totalTokens"))

\* The usage has inputTokens and outputTokens.
HasInputAndOutput(u) == IsNumber(Get(u, "inputTokens")) /\ IsNumber(Get(u, "outputTokens"))

\* C35: after patches none of which carries totalTokens, a usage that has
\* inputTokens and outputTokens has their sum as totalTokens.
C35_DerivedTotalConsistent ==
    (NoTotalReported /\ HasInputAndOutput(usage))
        => Get(usage, "totalTokens") = JNum(Get(usage, "inputTokens").n + Get(usage, "outputTokens").n)

\* C35, the merge that derives the total: after patches none of which
\* carries totalTokens, the total is the sum at the merge that first leaves
\* the usage with inputTokens and outputTokens, and is never above the sum
\* afterwards.
C35_DerivedWhenFirstComplete ==
    (NoTotalReported /\ HasInputAndOutput(usage))
        => /\ IsNumber(Get(usage, "totalTokens"))
           /\ Get(usage, "totalTokens").n <= Get(usage, "inputTokens").n + Get(usage, "outputTokens").n
           /\ ~HasInputAndOutput(usagePrev)
                => Get(usage, "totalTokens").n
                       = Get(usage, "inputTokens").n + Get(usage, "outputTokens").n

\* inputTokens 2 and outputTokens 3 were merged, then inputTokens 5: the
\* total derived at the first merge, 5, is kept, where the sum is 8.
C35_StaleTotalWitness ==
    /\ applied = <<Compact([inputTokens |-> JNum(2), outputTokens |-> JNum(3)]),
                   Compact([inputTokens |-> JNum(5)])>>
    /\ usage = Compact([inputTokens |-> JNum(5), outputTokens |-> JNum(3), totalTokens |-> JNum(5)])

-----------------------------------------------------------------------------
(* Further properties of the splitter run                                  *)

\* Some substring of the text is a configured tag, compared in lower case.
HasTag(text) ==
    \E i \in 1..Len(text) : \E j \in i..Len(text) : IsTag(SubSeq(text, i, j))

\* C34: the content and the thinking a run of push() calls and flush() has
\* returned, each concatenated, hold no complete tag.
C34_NoTagInOutput ==
    phase = "flushed" => (~HasTag(content) /\ ~HasTag(thinking))

\* The stretches of text between the tags a list of pieces consumed: the
\* texts of the pieces that follow one another with no tag between them.
RECURSIVE Stretches(_, _)
Stretches(ps, cur) ==
    IF ps = <<>> THEN {cur}
    ELSE IF Head(ps).kind = "tag" THEN {cur} \cup Stretches(Tail(ps), <<>>)
         ELSE Stretches(Tail(ps), cur \o Head(ps).text)

\* The pieces one push() of the whole text followed by flush() returns.
OneShotPieces(text) ==
    push(NewSplitter, text).out.pieces
        \o flush([buffer |-> push(NewSplitter, text).buffer,
                  inThinking |-> push(NewSplitter, text).inThinking]).out.pieces

\* C34, between the tags: when the input's lower-case form has the input's
\* length, no stretch of text between two consumed tags holds a tag, so a
\* tag in the output is made of text from both sides of a consumed tag.
C34_NoTagBetweenConsumedTags ==
    (phase = "flushed" /\ SameLengthLower(input))
        => \A s \in Stretches(OneShotPieces(input), <<>>) : ~HasTag(s)

\* The text '</analysis', the tag '</ThinK>' and '>' were pushed and
\* flushed: the tag was consumed outside a thinking block and the content
\* returned is the tag '</analysis>'.
C34_JoinedTagWitness ==
    /\ phase = "flushed"
    /\ input = <<"<", "/", "a", "n", "a", "l", "y", "s", "i", "s",
                 "<", "/", "T", "h", "i", "n", "K", ">", ">">>
    /\ cuts = << <<"<", "/", "T", "h", "i", "n", "K", ">">> >>
    /\ content = <<"<", "/", "a", "n", "a", "l", "y", "s", "i", "s", ">">>

\* Two tags were consumed and the text between them went to the thinking.
C34_BetweenTagsWitness ==
    /\ phase = "flushed"
    /\ input = <<"<", "t", "h", "i", "n", "k", ">", "x", "<", "/", "T", "h", "i", "n", "K", ">">>
    /\ Len(cuts) = 2
    /\ thinking = <<"x">>
    /\ content = <<>>

-----------------------------------------------------------------------------
(* The response stream of a streaming proxy request: functions/index.js    *)
(* start(controller), its keep-alive timer, its async function and cancel. *)

\* Bound: number of chunks an upstream body arrives in.
MaxUpstreamChunks == 2

\* Bound: number of keep-alive frames the timer enqueues in one run.
MaxKeepAlives == 2

\* ':\n\n', the comment frame enqueued at the start and by the timer.
KeepAliveFrame == <<":", "\n", "\n">>

\* JSON.stringify({ message, status }): one word of text; a status that is
\* undefined is left out.
sseErrorPayload(message, status) ==
    "{\"message\":\"" \o message \o "\""
        \o (IF status = Undefined THEN "" ELSE ",\"status\":" \o ToString(status.n))
        \o "}"

\* A plausible slip: the frame is written without its event line.
sseErrorFrameUnnamed(message, status) ==
    <<"d", "a", "t", "a", ":", " ", sseErrorPayload(message, status), "\n", "\n">>

\* `event: error\ndata: ${payload}\n\n`
sseErrorFrame(message, status) ==
    <<"e", "v", "e", "n", "t", ":", " ", "e", "r", "r", "o", "r", "\n",
      "d", "a", "t", "a", ":", " ", sseErrorPayload(message, status), "\n", "\n">>

\* `<upstream request failed (HTTP ${status})>` (the words are given in English)
FailedMessage(status) == "upstream request failed (HTTP " \o ToString(status.n) \o ")"

\* text || `<upstream request failed ...>`
MessageOfFailed(text, status) == IF text # "" THEN text ELSE FailedMessage(status)

\* The controller of the response stream: the state of the stream, the
\* chunks enqueued and the calls made after the stream had finished.
Controller(stream, sent, late) == [stream |-> stream, sent |-> sent, late |-> late]

\* controller.enqueue(chunk): throws a TypeError unless the stream is readable.
Enqueue(c, chunk) ==
    IF c.stream = "readable"
    THEN [threw |-> FALSE, c |-> [c EXCEPT !.sent = Append(@, chunk)]]
    ELSE [threw |-> TRUE, c |-> [c EXCEPT !.late = Append(@, "enqueue")]]

\* controller.close(): throws a TypeError unless the stream is readable.
Close(c) ==
    IF c.stream = "readable"
    THEN [threw |-> FALSE, c |-> [c EXCEPT !.stream = "closed"]]
    ELSE [threw |-> TRUE, c |-> [c EXCEPT !.late = Append(@, "close")]]

\* The finally block of the async function, and the handler of its
\* rejection when the finally block threw: closed = true, clearInterval,
\* controller.close(), each time.
CloseAtEnd(c) == IF Close(c).threw THEN Close(Close(c).c).c ELSE Close(c).c

\* A plausible slip: the catch block reports nothing.
CatchSilently(c, message) == CloseAtEnd(c)

\* The catch block of the async function, then its finally block:
\* sseError(controller, msg); when its enqueue throws the frame is not sent.
CatchAndClose(c, message) == CloseAtEnd(Enqueue(c, sseErrorFrame(message, Undefined)).c)

\* sseError(controller, text || ..., upstreamRes.status); return; a throw
\* of its enqueue is caught by the catch block.
ReportFailed(c, text, status) ==
    IF Enqueue(c, sseErrorFrame(MessageOfFailed(text, status), status)).threw
    THEN CatchAndClose(Enqueue(c, sseErrorFrame(MessageOfFailed(text, status), status)).c, "Invalid state")
    ELSE CloseAtEnd(Enqueue(c, sseErrorFrame(MessageOfFailed(text, status), status)).c)

\* Chunks of an upstream body: a whole frame, a frame cut inside its data
\* line, the delimiter alone, a frame cut after its first data line, and
\* the second data line with the delimiter.
UpstreamChunks ==
    { <<"d", "a", "t", "a", ":", "a", "\n", "\n">>,
      <<"d", "a", "t", "a", ":", "a">>,
      <<"\n", "\n">>,
      <<"d", "a", "t", "a", ":", "a", "\n">>,
      <<"d", "a", "t", "a", ":", "b", "\n", "\n">> }

RECURSIVE Bodies(_)
Bodies(n) ==
    IF n = 0 THEN {<<>>}
    ELSE Bodies(n - 1) \cup {Append(b, k) : b \in Bodies(n - 1), k \in UpstreamChunks}

\* What the upstream does: fetchFn rejects; or it answers with a status
\* that is not OK and a body text, or with no body; or it answers 200 with
\* a body that arrives in chunks and then ends or fails.
Upstreams ==
    {[kind |-> "rejects", status |-> Undefined, text |-> "", chunks |-> <<>>, ending |-> "none"]}
    \cup {[kind |-> "failed", status |-> JNum(500), text |-> t, chunks |-> <<>>, ending |-> "none"]
            : t \in {"", "boom"}}
    \cup {[kind |-> "failed", status |-> JNum(200), text |-> "", chunks |-> <<>>, ending |-> "none"]}
    \cup {[kind |-> "body", status |-> JNum(200), text |-> "", chunks |-> b, ending |-> e]
            : b \in Bodies(MaxUpstreamChunks), e \in {"ends", "fails"}}

\* No proxy stream is in progress.
RelayIdle ==
    /\ relayUpstream = [kind |-> "none"]
    /\ relayPc = "idle"
    /\ relayRead = 0
    /\ relaySent = <<>>
    /\ relayStream = "none"
    /\ relayLate = <<>>
    /\ relayClosed = FALSE
    /\ relayTimer = FALSE
    /\ relayAborted = FALSE
    /\ relayTicks = 0
    /\ relayStatus = 0

\* start(controller) up to the first await of the async function: the
\* timer is set, ':\n\n' is enqueued and fetchFn is called; the stream is
\* returned in a Response of status 200.
RelayInit ==
    /\ relayUpstream \in Upstreams
    /\ relayPc = "fetching"
    /\ relayRead = 0
    /\ relaySent = <<KeepAliveFrame>>
    /\ relayStream = "readable"
    /\ relayLate = <<>>
    /\ relayClosed = FALSE
    /\ relayTimer = TRUE
    /\ relayAborted = FALSE
    /\ relayTicks = 0
    /\ relayStatus = 200

CurrentController == Controller(relayStream, relaySent, relayLate)

\* The async function has run to its end through c: closed = true and the
\* timer is cleared.
Ended(c) ==
    /\ relayStream' = c.stream
    /\ relaySent' = c.sent
    /\ relayLate' = c.late
    /\ relayClosed' = TRUE
    /\ relayTimer' = FALSE
    /\ relayPc' = "done"
    /\ UNCHANGED <<relayUpstream, relayRead, relayAborted, relayTicks, relayStatus>>
    /\ RelayFrame

\* The timer's callback when 8 seconds have passed since the last chunk
\* was sent: controller.enqueue(':\n\n').  A throw of enqueue ends the
\* callback; nothing catches it.
KeepAliveTick ==
    /\ relayTimer
    /\ ~relayClosed
    /\ relayTicks < MaxKeepAlives
    /\ \E r \in {Enqueue(CurrentController, KeepAliveFrame)} :
          /\ relaySent' = r.c.sent
          /\ relayLate' = r.c.late
    /\ relayTicks' = relayTicks + 1
    /\ UNCHANGED <<relayUpstream, relayPc, relayRead, relayStream, relayClosed, relayTimer,
                   relayAborted, relayStatus>>
    /\ RelayFrame

\* The client cancels the response: the stream is closed to the proxy and
\* cancel() aborts the upstream request.
ClientCancels ==
    /\ relayStream = "readable"
    /\ relayStream' = "cancelled"
    /\ relayAborted' = TRUE
    /\ UNCHANGED <<relayUpstream, relayPc, relayRead, relaySent, relayLate, relayClosed,
                   relayTimer, relayTicks, relayStatus>>
    /\ RelayFrame

\* await fetchFn(...) resolves with a response.
UpstreamResponds ==
    /\ relayPc = "fetching"
    /\ relayUpstream.kind \in {"failed", "body"}
    /\ relayPc' = IF relayUpstream.kind = "failed" THEN "text" ELSE "reading"
    /\ UNCHANGED <<relayUpstream, relayRead, relaySent, relayStream, relayLate, relayClosed,
                   relayTimer, relayAborted, relayTicks, relayStatus>>
    /\ RelayFrame

\* await fetchFn(...) rejects.
UpstreamRejects ==
    /\ relayPc = "fetching"
    /\ relayUpstream.kind = "rejects"
    /\ Ended(CatchAndClose(CurrentController, "network"))

\* The response is not OK or has no body: await upstreamRes.text() settles.
FailedTextRead ==
    /\ relayPc = "text"
    /\ Ended(ReportFailed(CurrentController, relayUpstream.text, relayUpstream.status))

\* reader.read() resolves with a chunk.
ForwardChunk ==
    /\ relayPc = "reading"
    /\ relayRead < Len(relayUpstream.chunks)
    /\ \E r \in {Enqueue(CurrentController, relayUpstream.chunks[relayRead + 1])} :
          IF r.threw THEN Ended(CatchAndClose(r.c, "Invalid state"))
          ELSE /\ relaySent' = r.c.sent
               /\ relayRead' = relayRead + 1
               /\ UNCHANGED <<relayUpstream, relayPc, relayStream, relayLate, relayClosed,
                              relayTimer, relayAborted, relayTicks, relayStatus>>
               /\ RelayFrame

\* reader.read() resolves with done.
UpstreamEnds ==
    /\ relayPc = "reading"
    /\ relayRead = Len(relayUpstream.chunks)
    /\ relayUpstream.ending = "ends"
    /\ Ended(CloseAtEnd(CurrentController))

\* reader.read() rejects: the upstream connection failed.
UpstreamReadRejects ==
    /\ relayPc = "reading"
    /\ relayRead = Len(relayUpstream.chunks)
    /\ relayUpstream.ending = "fails"
    /\ Ended(CatchAndClose(CurrentController, "reset"))

\* The signal has fired: the pending fetchFn or reader.read() rejects.
AbortRejects ==
    /\ relayAborted
    /\ relayPc \in {"fetching", "reading"}
    /\ Ended(CatchAndClose(CurrentController, "aborted"))

RelayNext ==
    \/ KeepAliveTick
    \/ ClientCancels
    \/ UpstreamResponds
    \/ UpstreamRejects
    \/ FailedTextRead
    \/ ForwardChunk
    \/ UpstreamEnds
    \/ UpstreamReadRejects
    \/ AbortRejects

-----------------------------------------------------------------------------
(* Properties of the proxy's response stream                               *)

ErrorEventLine == <<"e", "v", "e", "n", "t", ":", " ", "e", "r", "r", "o", "r", "\n">>

\* The chunk is a frame that begins with the line 'event: error'.
IsErrorFrame(chunk) == StartsWith(chunk, ErrorEventLine)

\* The message and the status the failure of the upstream is to be
\* reported with.
ReportedMessage ==
    CASE relayUpstream.kind = "rejects" -> "network"
      [] relayUpstream.kind = "failed" ->
             (IF relayUpstream.text # "" THEN relayUpstream.text
              ELSE "upstream request failed (HTTP " \o ToString(relayUpstream.status.n) \o ")")
      [] OTHER -> "reset"

ReportedStatus == IF relayUpstream.kind = "failed" THEN relayUpstream.status ELSE Undefined

\* The data of the frame is the JSON text of {message, status?}.
IsJsonOf(data, message, status) ==
    data = <<"{\"message\":\"" \o message \o "\""
               \o (IF status = Undefined THEN "" ELSE ",\"status\":" \o ToString(status.n))
               \o "}">>

\* The response has status 200; one chunk of it is an error frame, the
\* last, and it reads as one record of event 'error' whose data is the
\* JSON of the message and the upstream status; of a response that was not
\* OK nothing else was sent but comment frames; the stream is closed and
\* the timer is cleared.
FailureReported ==
    /\ relayStatus = 200
    /\ Len(SelectSeq(relaySent, IsErrorFrame)) = 1
    /\ IsErrorFrame(relaySent[Len(relaySent)])
    /\ Len(parseSseChunk(relaySent[Len(relaySent)])) = 1
    /\ parseSseChunk(relaySent[Len(relaySent)])[1].event = <<"e", "r", "r", "o", "r">>
    /\ IsJsonOf(parseSseChunk(relaySent[Len(relaySent)])[1].data, ReportedMessage, ReportedStatus)
    /\ relayUpstream.kind = "failed"
         => \A i \in 1..(Len(relaySent) - 1) : relaySent[i] = KeepAliveFrame
    /\ relayStream = "closed"
    /\ relayClosed
    /\ ~relayTimer

\* The async function has run to its end and the upstream had failed:
\* fetchFn rejected, or the response was not OK or had no body, or the
\* read after the last chunk of the body rejected.
EndedOnFailure ==
    /\ relayPc = "done"
    /\ \/ relayUpstream.kind \in {"rejects", "failed"}
       \/ /\ relayUpstream.kind = "body"
          /\ relayUpstream.ending = "fails"
          /\ relayRead = Len(relayUpstream.chunks)

\* C33 as stated: whenever the upstream response is not OK or has no body,
\* or the upstream fetch or read throws, the response keeps status 200,
\* carries exactly one error frame with the JSON of {message, status?} and
\* no byte of a non-OK body as data, and is then closed with the timer
\* cleared.
C33_AsStated == EndedOnFailure => FailureReported

\* C33: the same, for a response the client has not cancelled by the time
\* the failure reaches the proxy.
C33_FailedUpstreamReported == (EndedOnFailure /\ ~relayAborted) => FailureReported

\* A response of status 500 with the body 'boom' was reported: after the
\* first comment frame the stream carries the error frame and is closed.
C33_Witness ==
    /\ relayPc = "done"
    /\ relayUpstream.kind = "failed"
    /\ relayUpstream.text = "boom"
    /\ relayStream = "closed"
    /\ Len(relaySent) = 2
    /\ IsErrorFrame(relaySent[2])
    /\ parseSseChunk(relaySent[2])[1].data = <<"{\"message\":\"boom\",\"status\":500}">>
    /\ ~relayTimer

\* The upstream failed after the client had cancelled the response: no
\* error frame was sent, and enqueue and close were called on the
\* cancelled stream.
C33_CancelledWitness ==
    /\ relayPc = "done"
    /\ relayUpstream.kind = "rejects"
    /\ relayStream = "cancelled"
    /\ relaySent = <<KeepAliveFrame>>
    /\ relayLate = <<"enqueue", "close", "close">>

\* C37: no step of the timer, of the forwarding loop or of the error path
\* calls controller.enqueue or controller.close on the response stream
\* after the proxy closed it or the client cancelled it, and the timer is
\* cleared once the async function has run to its end.
C37_NoCallOnFinishedStream ==
    /\ relayLate = <<>>
    /\ relayPc = "done" => ~relayTimer

\* C37, what holds: as long as the client has not cancelled the response no
\* call is made on a finished stream; and on every path, cancelled or not,
\* the async function ends with closed = true and the timer cleared, after
\* which the timer enqueues nothing.
C37_NoLateCallUnlessCancelled ==
    /\ ~relayAborted => relayLate = <<>>
    /\ relayPc = "done" => (relayClosed /\ ~relayTimer /\ ~ENABLED KeepAliveTick)

\* The client cancelled while the proxy was reading the upstream body, and
\* the read rejected: sseError's enqueue, the close of the finally block
\* and the close of the rejection handler were each called on the
\* cancelled stream.
C37_LateCallsWitness ==
    /\ relayPc = "done"
    /\ relayUpstream.kind = "body"
    /\ relayStream = "cancelled"
    /\ relayLate = <<"enqueue", "close", "close">>
    /\ ~relayTimer

\* The client cancelled and the timer fired before the async function
\* ended: the timer's enqueue was called on the cancelled stream.
C37_LateKeepAliveWitness ==
    /\ relayPc # "done"
    /\ relayStream = "cancelled"
    /\ relayTimer
    /\ relayLate = <<"enqueue">>

\* streamSse's read loop over the chunks of a response: the records handed
\* to the handler, in order.
RECURSIVE ReadAll(_, _)
ReadAll(buf, chunks) ==
    IF chunks = <<>> THEN <<>>
    ELSE ReadChunk(buf, Head(chunks)).events
             \o ReadAll(ReadChunk(buf, Head(chunks)).buffer, Tail(chunks))

\* The chunks of the upstream body the proxy has read.
UpstreamRead == SubSeq(relayUpstream.chunks, 1, relayRead)

RECURSIVE Flatten(_)
Flatten(chunks) == IF chunks = <<>> THEN <<>> ELSE Head(chunks) \o Flatten(Tail(chunks))

\* No error frame was sent: the response carries the upstream body and
\* comment frames alone.
OnlyForwarded == \A i \in 1..Len(relaySent) : ~IsErrorFrame(relaySent[i])

\* Every comment frame of the timer was enqueued when the upstream text
\* sent before it ended with a frame delimiter, or none had been sent.
KeepAlivesBetweenFrames ==
    \A i \in 2..Len(relaySent) :
        relaySent[i] = KeepAliveFrame
            => TextAfterLastDelimiter(Flatten(SubSeq(relaySent, 1, i - 1))) = <<>>

\* C36: the records the client's frame reader parses from the proxy's
\* response are those it would parse from the upstream bytes alone, at
\* every moment and for every chunking and timing of the upstream body.
C36_KeepAliveTransparent ==
    (relayUpstream.kind = "body" /\ OnlyForwarded)
        => ReadAll(<<>>, relaySent) = ReadAll(<<>>, UpstreamRead)

\* C36, what holds: the same when every comment frame of the timer fell
\* between two upstream frames.
C36_TransparentBetweenFrames ==
    (relayUpstream.kind = "body" /\ OnlyForwarded /\ KeepAlivesBetweenFrames)
        => ReadAll(<<>>, relaySent) = ReadAll(<<>>, UpstreamRead)

\* The upstream frame 'data:a\ndata:b\n\n' arrived as 'data:a\n' and
\* 'data:b\n\n', and the timer fired in between: the upstream bytes alone
\* read as one record, the response reads as two.
C36_SplitFrameWitness ==
    /\ relayUpstream.chunks = << <<"d", "a", "t", "a", ":", "a", "\n">>,
                                 <<"d", "a", "t", "a", ":", "b", "\n", "\n">> >>
    /\ relaySent = <<KeepAliveFrame, relayUpstream.chunks[1], KeepAliveFrame,
                     relayUpstream.chunks[2]>>
    /\ Len(ReadAll(<<>>, UpstreamRead)) = 1
    /\ Len(ReadAll(<<>>, relaySent)) = 2

\* The timer fired between two whole upstream frames: the records are the
\* same.
C36_BetweenFramesWitness ==
    /\ relayPc = "done"
    /\ Len(relaySent) = 4
    /\ relaySent[3] = KeepAliveFrame
    /\ relaySent[2] = <<"d", "a", "t", "a", ":", "a", "\n", "\n">>
    /\ Len(ReadAll(<<>>, relaySent)) = 2

\* The characters of a string, as the one word the page compares.
RECURSIVE Word(_)
Word(s) == IF s = <<>> THEN "" ELSE Head(s) \o Word(Tail(s))

\* The objects sseError serialises in the runs of the model.
ErrorPayloads ==
    {[message |-> m, status |-> st] :
        m \in {"network", "reset", "aborted", "Invalid state", "boom",
               FailedMessage(JNum(500)), FailedMessage(JNum(200))},
        st \in {Undefined, JNum(500), JNum(200)}}

\* The payloads whose JSON text the data is.
PayloadsOf(data) ==
    {p \in ErrorPayloads : Trim(data) = <<sseErrorPayload(p.message, p.status)>>}

\* The data of a record as JSON.parse sees it: the text of one of the
\* objects sseError serialises, or a text that does not parse.
DataText(data) ==
    IF PayloadsOf(data) = {} THEN PlainText(data)
    ELSE JsonText(Compact([message |-> JStr(<<(CHOOSE p \in PayloadsOf(data) : TRUE).message>>),
                           status |-> (CHOOSE p \in PayloadsOf(data) : TRUE).status]))

\* A record of the frame reader as the page's handler is given it.
AsPageRecord(r) ==
    Record(IF r.event = Null THEN Null ELSE <<Word(r.event)>>, DataText(r.data))

\* The response carries an error frame of the proxy.
ErrorFrameSent == \E i \in 1..Len(relaySent) : IsErrorFrame(relaySent[i])

\* The object the error frame was made from: the last chunk's payload.
SentPayload ==
    CHOOSE p \in ErrorPayloads :
        relaySent[Len(relaySent)] = sseErrorFrame(p.message, p.status)

\* Some record read from the response has event 'error' and makes
\* parseProxyErrorEvent return an error object.
ErrorRecordRead ==
    \E j \in 1..Len(ReadAll(<<>>, relaySent)) :
        /\ ReadAll(<<>>, relaySent)[j].event = <<"e", "r", "r", "o", "r">>
        /\ parseProxyErrorEvent(AsPageRecord(ReadAll(<<>>, relaySent)[j])) # JNull

\* C38: every error frame the proxy emits is read by the client as a
\* record of event 'error' that the page takes for the upstream's error,
\* whatever upstream bytes were forwarded before it.
C38_ErrorFrameSurfaces == ErrorFrameSent => ErrorRecordRead

\* C38, what holds: an error frame that follows complete upstream frames
\* (or none) is read as the last record, of event 'error', and
\* parseProxyErrorEvent returns the object the proxy serialised.
C38_SurfacesAfterCompleteFrames ==
    (ErrorFrameSent /\ TextAfterLastDelimiter(Flatten(UpstreamRead)) = <<>>)
        => /\ ErrorRecordRead
           /\ parseProxyErrorEvent(AsPageRecord(
                  ReadAll(<<>>, relaySent)[Len(ReadAll(<<>>, relaySent))]))
                = Compact([message |-> JStr(<<SentPayload.message>>),
                           status |-> SentPayload.status])

\* The upstream failed after 'data:a', a frame cut inside its data line:
\* the event line of the error frame became part of that data line, and the
\* one record read has no event name.
C38_LostErrorWitness ==
    /\ relayPc = "done"
    /\ relayUpstream.chunks = << <<"d", "a", "t", "a", ":", "a">> >>
    /\ ErrorFrameSent
    /\ Len(ReadAll(<<>>, relaySent)) = 1
    /\ ReadAll(<<>>, relaySent)[1].event = Null
    /\ parseProxyErrorEvent(AsPageRecord(ReadAll(<<>>, relaySent)[1])) = JNull

\* The upstream failed after one whole frame: the error frame is read as
\* the second record and parseProxyErrorEvent returns {message: 'reset'}.
C38_SurfacedWitness ==
    /\ relayPc = "done"
    /\ relayUpstream.chunks = << <<"d", "a", "t", "a", ":", "a", "\n", "\n">> >>
    /\ ErrorFrameSent
    /\ Len(ReadAll(<<>>, relaySent)) = 2
    /\ parseProxyErrorEvent(AsPageRecord(ReadAll(<<>>, relaySent)[2]))
         = Compact([message |-> JStr(<<"reset">>), status |-> Undefined])

-----------------------------------------------------------------------------
(* Further properties of what the page persists                            *)

\* C40: while streaming is true no step changes the current conversation
\* or takes a message from its list, and the one message a step adds is
\* the assistant's reply, added by the step that ends the exchange: the
\* reply is appended to the list that received the exchange's prompt.
C40_ReplyLandsInItsConversation ==
    [][page.streaming =>
         /\ page'.currentConversationId = page.currentConversationId
         /\ Len(page'.messages) >= Len(page.messages)
         /\ SubSeq(page'.messages, 1, Len(page.messages)) = page.messages
         /\ Len(page'.messages) > Len(page.messages) =>
               /\ Len(page'.messages) = Len(page.messages) + 1
               /\ Get(page'.messages[Len(page'.messages)], "role") = JStr(<<"assistant">>)
               /\ ~page'.streaming]_vars

\* An import was started, then a prompt was sent as the third click, and
\* the file's text came while streaming (the imported conversation dates
\* from after that click): it is listed, and the current conversation is
\* still the one whose list ends with the prompt.
C40_Witness ==
    /\ page.streaming
    /\ page.clicks = 3
    /\ page.importing = NoItem
    /\ Len(page.messages) >= 1
    /\ Get(page.messages[Len(page.messages)], "role") = JStr(<<"user">>)
    /\ Get(page.messages[Len(page.messages)], "content") = JStr(<<"hi">>)
    /\ \E i \in 1..Len(page.conversations) :
          /\ Get(page.conversations[i], "id").s # page.currentConversationId
          /\ Get(page.conversations[i], "title") = JStr(<<"old">>)
          /\ Get(page.conversations[i], "updatedAt") = JNum(Now + 3)

\* The ids a conversation of the model can have.
ConversationIds == {IdA} \cup {createId(n) : n \in 1..(MaxClicks + 1)}

\* The texts of the messages the user and the assistant add.
AppendedTexts == {<<"hi">>, <<"hello">>}

\* Some message of the list has the content text.
HasContent(list, text) == \E i \in 1..Len(list) : Get(list[i], "content") = JStr(text)

\* The conversation id is the current one and its list has a message of
\* content text.
InCurrent(id, text) ==
    /\ page.conversationsHydrated
    /\ page.currentConversationId = id
    /\ HasContent(page.messages, text)

\* The detail stored under id has a message of content text.
InStored(id, text) ==
    /\ readConversationDetail(storage, id) # JNull
    /\ HasContent(Get(readConversationDetail(storage, id), "messages").a, text)

\* The conversation id was deleted, or it is the current one and the user
\* has taken the message from its list.
Withdrawn(id, text) ==
    \/ id \notin ListedIds
    \/ page.currentConversationId = id /\ ~HasContent(page.messages, text)

\* C39: a message that is in the list of the current conversation is
\* eventually in the detail stored under that conversation's id, unless
\* the conversation is deleted or the message is cleared from its list.
C39_EveryMessageStored ==
    \A id \in ConversationIds : \A text \in AppendedTexts :
        InCurrent(id, text) ~> (InStored(id, text) \/ Withdrawn(id, text))

\* Who said what in a list of messages, in order.
SaidIn(list) == [i \in 1..Len(list) |-> <<Get(list[i], "role"), Get(list[i], "content")>>]

\* C39, what holds: whenever no save timer is pending, the detail stored
\* under the current conversation's id has the messages of the list.
C39_StoredWhenNoTimerPending ==
    (page.conversationsHydrated /\ ~page.conversationSaveTimer
        /\ page.currentConversationId # <<>>)
        => /\ readConversationDetail(storage, page.currentConversationId) # JNull
           /\ SaidIn(Get(readConversationDetail(storage, page.currentConversationId),
                         "messages").a)
                = SaidIn(page.messages)

\* The reply 'hello' was appended to a conversation and another
\* conversation was selected before the save timer fired; the timer has
\* fired since: the detail stored under the first conversation's id has no
\* message 'hello', and no list in memory has it.
C39_LostReplyWitness ==
    /\ ~page.streaming
    /\ ~page.conversationSaveTimer
    /\ ~HasContent(page.messages, <<"hello">>)
    /\ \E id \in ListedIds \ {page.currentConversationId} :
          /\ readConversationDetail(storage, id) # JNull
          /\ HasContent(Get(readConversationDetail(storage, id), "messages").a, <<"hi">>)
          /\ ~InStored(id, <<"hello">>)
          /\ \E i \in 1..Len(page.conversations) :
                /\ Get(page.conversations[i], "id").s = id
                /\ Get(page.conversations[i], "lastSnippet") = JStr(<<"hello">>)

-----------------------------------------------------------------------------
(* Specifications: one per run; the variables of the other runs stay idle. *)

InitSplitter == SplitterInit /\ SseIdle /\ UsageIdle /\ DecoderIdle /\ PageIdle /\ ProxyIdle /\ StoreIdle /\ PersistIdle /\ RelayIdle

SpecSplitter == InitSplitter /\ [][SplitterNext]_vars

InitFrames == FramesInit /\ SplitterIdle /\ UsageIdle /\ DecoderIdle /\ PageIdle /\ ProxyIdle /\ StoreIdle /\ PersistIdle /\ RelayIdle

SpecFrames == InitFrames /\ [][FramesNext]_vars

InitSse == SseInit /\ SplitterIdle /\ UsageIdle /\ DecoderIdle /\ PageIdle /\ ProxyIdle /\ StoreIdle /\ PersistIdle /\ RelayIdle

SpecSse == InitSse /\ [][SseNext]_vars

InitUsage == UsageInit /\ SplitterIdle /\ SseIdle /\ DecoderIdle /\ PageIdle /\ ProxyIdle /\ StoreIdle /\ PersistIdle /\ RelayIdle

SpecUsage == InitUsage /\ [][UsageNext]_vars

InitDecoders == DecoderInit /\ SplitterIdle /\ SseIdle /\ UsageIdle /\ PageIdle /\ ProxyIdle /\ StoreIdle /\ PersistIdle /\ RelayIdle

SpecDecoders == InitDecoders /\ [][DecoderNext]_vars

InitExchange == PageInit /\ SplitterIdle /\ SseIdle /\ UsageIdle /\ DecoderIdle /\ ProxyIdle /\ StoreIdle /\ PersistIdle /\ RelayIdle

SpecExchange == InitExchange /\ [][PageNext]_vars

InitProxy ==
    /\ ProxyInit /\ SplitterIdle /\ SseIdle /\ UsageIdle /\ DecoderIdle /\ PageIdle
    /\ StoreIdle /\ PersistIdle /\ RelayIdle

SpecProxy == InitProxy /\ [][ProxyNext]_vars

InitStore ==
    /\ StoreInit /\ SplitterIdle /\ SseIdle /\ UsageIdle /\ DecoderIdle /\ PageIdle
    /\ ProxyIdle /\ PersistIdle /\ RelayIdle

SpecStore == InitStore /\ [][StoreNext]_vars

InitPersist ==
    /\ PersistInit /\ SplitterIdle /\ SseIdle /\ UsageIdle /\ DecoderIdle /\ PageIdle
    /\ ProxyIdle /\ RelayIdle

SpecPersist == InitPersist /\ [][PersistNext]_vars

\* The steps of the page that append messages, change the current
\* conversation or write to localStorage.
ConversationNext ==
    \/ Mount
    \/ EditApiKey
    \/ SaveTimerFires
    \/ SendPrompt
    \/ FinishExchange
    \/ ConversationSaveTimerFires
    \/ CreateConversation
    \/ SelectConversation
    \/ DuplicateConversation
    \/ DeleteConversation
    \/ ImportStart
    \/ ImportDone

\* The page when its timers fire: a timeout that was set and not cleared
\* runs its callback.
SpecPersistLive ==
    InitPersist /\ [][ConversationNext]_vars
        /\ WF_vars(ConversationSaveTimerFires) /\ WF_vars(SaveTimerFires)

InitRelay ==
    /\ RelayInit /\ SplitterIdle /\ SseIdle /\ UsageIdle /\ DecoderIdle /\ PageIdle
    /\ ProxyIdle /\ StoreIdle /\ PersistIdle

SpecRelay == InitRelay /\ [][RelayNext]_vars

\* The loop over the records of a chunk is synchronous code: it takes its
\* next turn as long as it has one.  This is WF_vars(Handle) with
\* ENABLED <<Handle>>_vars written as the state predicate pc = "handling"
\* that it equals: Handle is enabled exactly there and changes pc or pending.
HandlerGoesOn == <>[](pc = "handling") => []<><<Handle>>_vars

\* The exchange when every promise send() awaits settles and the loop over
\* a chunk goes on: the browser settles a pending fetch, read or cancel,
\* and the event loop runs the continuation.
SpecExchangeLive ==
    InitExchange /\ [][PageNext]_vars /\ WF_vars(Settles) /\ HandlerGoesOn

=============================================================================
